---- MODULE Spec2Model ----
(***************************************************************************)
(* prsc: parser combinators.  A parser is a closure (input, offset) ->     *)
(* ParseResult.  A parser value is modelled as the tree of closures that   *)
(* the combinator calls built; every node carries the variables its        *)
(* closure captured, so a write to a captured variable (or's `expected`)   *)
(* is a change of the parser value.                                        *)
(***************************************************************************)
EXTENDS Integers, Sequences, FiniteSets, TLC

VARIABLES
    made,       \* the parser value as the combinator calls constructed it
    parser,     \* the same parser value now (captured variables as they are)
    input,      \* the input string, a sequence of UTF-16 code units
    offset,     \* offset of the latest invocation
    result,     \* ParseResult of the latest invocation
    calls,      \* the invocations of its direct children the latest invocation made
    invoked,    \* whether the parser value has been invoked at all
    pc,         \* position of the stepwise repetition loop
    nextOffset, \* star / starConsumed: `nextOffset`; streamingStar: `offset`
    ts,         \* star: `ts`; streamingStar: the items yielded so far
    iters       \* invocations of the inner parser made by the running loop

vars == <<made, parser, input, offset, result, calls, invoked, pc, nextOffset, ts, iters>>

(***************************************************************************)
(* Bounds of the model.                                                    *)
(***************************************************************************)
MaxLen == 3

Units == {"a", "b"}

Min(a, b) == IF a < b THEN a ELSE b
Max(a, b) == IF a < b THEN b ELSE a

RECURSIVE SeqsUpTo(_, _)
SeqsUpTo(S, n) ==
    IF n = 0 THEN {<<>>}
    ELSE LET shorter == SeqsUpTo(S, n - 1)
         IN shorter \cup {Append(s, u) : s \in {t \in shorter : Len(t) = n - 1}, u \in S}

Inputs == SeqsUpTo(Units, MaxLen)

(***************************************************************************)
(* Strings.  A string is a sequence of code units; a unit is written as a  *)
(* one-character name, "H" and "L" being a high and a low surrogate.       *)
(***************************************************************************)
CodeUnit(u) ==
    CASE u = "a" -> 97
      [] u = "b" -> 98
      [] u = "H" -> 55357
      [] u = "L" -> 56832
      [] u = "e" -> 233
      [] u = "E" -> 8364

RECURSIVE Text(_)
Text(s) == IF s = <<>> THEN "" ELSE Head(s) \o Text(Tail(s))

\* String.prototype.slice(start, end) for 0 <= start
Slice(s, from, to) ==
    LET lo == Min(from, Len(s))
        hi == Min(to, Len(s))
    IN IF lo >= hi THEN <<>> ELSE SubSeq(s, lo + 1, hi)

\* String.prototype.codePointAt(pos); -1 stands for undefined
CodePointAt(s, pos) ==
    IF pos < 0 \/ pos >= Len(s) THEN -1
    ELSE LET first == CodeUnit(s[pos + 1])
         IN IF first >= 55296 /\ first <= 56319 /\ pos + 1 < Len(s)
            THEN LET second == CodeUnit(s[pos + 2])
                 IN IF second >= 56320 /\ second <= 57343
                    THEN (first - 55296) * 1024 + (second - 56320) + 65536
                    ELSE first
            ELSE first

\* String.fromCodePoint, for the code points range() is built with
FromCodePoint(cp) ==
    CASE cp = 97 -> "a"
      [] cp = 98 -> "b"
      [] cp = 233 -> "e"
      [] cp = 8364 -> "E"
      [] cp = 128512 -> "HL"
      [] cp = 0 -> "0"
      [] OTHER -> "?"

(***************************************************************************)
(* Values.  Every value has the same shape, so that any two compare.       *)
(***************************************************************************)
Str(s) == [t |-> "string", s |-> s, items |-> <<>>]
Undefined == [t |-> "undefined", s |-> "", items |-> <<>>]
Null == [t |-> "null", s |-> "", items |-> <<>>]
List(vs) == [t |-> "array", s |-> "", items |-> vs]
NoValue == [t |-> "none", s |-> "", items |-> <<>>]

\* An optional `expected?: string[]` argument
NoExpected == [set |-> FALSE, v |-> <<>>]
Expected(e) == [set |-> TRUE, v |-> e]

(***************************************************************************)
(* ParseResult                                                             *)
(***************************************************************************)
okWithValue(off, value) ==
    [success |-> TRUE, offset |-> off, value |-> value, expected |-> <<>>, fatal |-> FALSE]

ok(off) == okWithValue(off, Undefined)

error(off, expected, fatal) ==
    [success |-> FALSE, offset |-> off, value |-> NoValue, expected |-> expected, fatal |-> fatal]

(***************************************************************************)
(* The callbacks a grammar passes to the combinators, by name.             *)
(***************************************************************************)
\* isMatch of codepoint / codepoints; range() passes its own closure
IsMatch(p, cp) ==
    CASE p.fn = "any" -> TRUE
      [] p.fn = "isA" -> cp = 97
      [] p.fn = "astral" -> cp > 65535
      [] p.fn = "range" -> p.n <= cp /\ cp <= p.m

\* map's `map`
MapFn(fn, v) ==
    CASE fn = "toUndefined" -> Undefined
      [] fn = "filterUndefined" -> List(SelectSeq(v.items, LAMBDA x : x # Undefined))
      [] fn = "wrap" -> List(<<v>>)

\* filter's `filter`
FilterFn(fn, v) ==
    CASE fn = "accept" -> TRUE
      [] fn = "reject" -> FALSE
      [] fn = "isA" -> v = Str("a")

first(x, y) == x

second(x, y) == y

\* then's `join`
JoinFn(fn, v1, v2) ==
    CASE fn = "first" -> first(v1, v2)
      [] fn = "second" -> second(v1, v2)
      [] fn = "prepend" -> List(<<v1>> \o v2.items)
      [] fn = "pair" -> List(<<v1, v2>>)

(***************************************************************************)
(* Parser values.  Each combinator call returns a closure; the node holds  *)
(* what that closure captured: its arguments and its child parsers.        *)
(***************************************************************************)
Node(k) ==
    [k |-> k, tok |-> <<>>, fn |-> "", n |-> 0, m |-> 0, e |-> NoExpected,
     f |-> FALSE, keys |-> <<>>, c |-> <<>>]

token(tok) == [Node("token") EXCEPT !.tok = tok]

codepoint(isMatch, expected) ==
    [Node("codepoint") EXCEPT !.fn = isMatch, !.e = Expected(expected)]

codepoints(isMatch, expected) ==
    [Node("codepoints") EXCEPT !.fn = isMatch, !.e = expected]

range(firstCodePoint, lastCodePoint, expected) ==
    [codepoint("range",
               IF expected.set THEN expected.v
               ELSE <<FromCodePoint(firstCodePoint) \o "-" \o FromCodePoint(lastCodePoint)>>)
     EXCEPT !.n = firstCodePoint, !.m = lastCodePoint]

skipChars(nCodepoints) == [Node("skipChars") EXCEPT !.n = nCodepoints]

map(p, fn) == [Node("map") EXCEPT !.fn = fn, !.c = <<p>>]

consume(p) == map(p, "toUndefined")

filter(p, fn, expected, fatal) ==
    [Node("filter") EXCEPT !.fn = fn, !.e = Expected(expected), !.f = fatal, !.c = <<p>>]

or(parsers, expected) == [Node("or") EXCEPT !.e = expected, !.c = parsers]

optional(p) == [Node("optional") EXCEPT !.c = <<p>>]

star(p) == [Node("star") EXCEPT !.c = <<p>>]

starConsumed(p) == [Node("starConsumed") EXCEPT !.c = <<p>>]

filterUndefined(p) == map(p, "filterUndefined")

then(parser1, parser2, join) == [Node("then") EXCEPT !.fn = join, !.c = <<parser1, parser2>>]

\* plus whose join keeps only the values of star
plusDropsFirst(p) == [Node("plus") EXCEPT !.fn = "second", !.c = <<p>>]

\* then(parser, star(parser), prepend): both stages are the one closure `parser`
plus(p) == [Node("plus") EXCEPT !.fn = "prepend", !.c = <<p>>]

\* then(parser, starConsumed(parser), second), again over the one closure
plusConsumed(p) == [Node("plusConsumed") EXCEPT !.fn = "second", !.c = <<p>>]

preceded(before, p) == then(before, p, "second")

followed(p, after) == then(p, after, "first")

recognize(p) == [Node("recognize") EXCEPT !.c = <<p>>]

peek(p) == [Node("peek") EXCEPT !.c = <<p>>]

not(p, expected) == [Node("not") EXCEPT !.e = Expected(expected), !.c = <<p>>]

except(match, exceptParser, expected) == preceded(not(exceptParser, expected), match)

\* mapping: keys[i] is the code point of parsers[i]; `otherwise`, when given
\* (hasOtherwise), is kept as the last child
dispatch(keys, parsers, hasOtherwise, otherwise, extraOffset, expected) ==
    [Node("dispatch") EXCEPT !.keys = keys, !.f = hasOtherwise, !.n = extraOffset,
                             !.e = Expected(expected),
                             !.c = IF hasOtherwise THEN Append(parsers, otherwise) ELSE parsers]

cut(p) == [Node("cut") EXCEPT !.c = <<p>>]

delimited(open, inner, close, cutAfterOpen) ==
    LET rest == IF cutAfterOpen THEN cut(followed(inner, close)) ELSE followed(inner, close)
    IN preceded(open, rest)

start == Node("start")

end == Node("end")

complete(p) == then(p, end, "first")

\* StreamingParser values: generator functions over the same captured state
streaming(p) == [Node("streaming") EXCEPT !.c = <<p>>]

streamingThen(parser1, parser2) == [Node("streamingThen") EXCEPT !.c = <<parser1, parser2>>]

streamingFilterUndefined(p) == [Node("streamingFilterUndefined") EXCEPT !.c = <<p>>]

streamingStar(p) == [Node("streamingStar") EXCEPT !.c = <<p>>]

streamingOptional(p) == [Node("streamingOptional") EXCEPT !.c = <<p>>]

streamingComplete(p) == [Node("streamingComplete") EXCEPT !.c = <<p>>]

(***************************************************************************)
(* The closures' bodies: primitives.                                       *)
(***************************************************************************)
tokenBody(p, in, off) ==
    LET offsetAfter == off + Len(p.tok)
    IN IF Slice(in, off, offsetAfter) = p.tok
       THEN okWithValue(offsetAfter, Str(Text(p.tok)))
       ELSE error(off, <<Text(p.tok)>>, FALSE)

lengthFromCodePoint(cp) == IF cp > 65535 THEN 2 ELSE 1

codepointBody(p, in, off) ==
    LET cp == CodePointAt(in, off)
    IN IF cp = -1 \/ ~IsMatch(p, cp)
       THEN error(off, p.e.v, FALSE)
       ELSE ok(off + lengthFromCodePoint(cp))

RECURSIVE codepointsLoop(_, _, _)
codepointsLoop(p, in, off) ==
    LET cp == CodePointAt(in, off)
    IN IF cp = -1 THEN off
       ELSE IF ~IsMatch(p, cp) THEN off
       ELSE codepointsLoop(p, in, off + (IF cp > 65535 THEN 2 ELSE 1))

codepointsBody(p, in, off) ==
    LET startOffset == off
        endOffset == codepointsLoop(p, in, off)
    IN IF p.e.set /\ endOffset = startOffset
       THEN error(endOffset, p.e.v, FALSE)
       ELSE ok(endOffset)

RECURSIVE skipCharsLoop(_, _, _)
skipCharsLoop(in, off, i) ==
    IF i > 0
    THEN LET cp == CodePointAt(in, off)
         IN IF cp = -1 THEN error(off, <<"any character">>, FALSE)
            ELSE skipCharsLoop(in, off + lengthFromCodePoint(cp), i - 1)
    ELSE ok(off)

skipCharsBody(p, in, off) == skipCharsLoop(in, off, p.n)

startBody(in, off) == IF off = 0 THEN ok(off) ELSE error(off, <<"start of input">>, FALSE)

\* end that matches anywhere
endBodyAnywhere(in, off) == ok(off)

endBody(in, off) == IF Len(in) = off THEN ok(off) ELSE error(off, <<"end of input">>, FALSE)

(***************************************************************************)
(* The closures' bodies: combinators, as what each does with the result    *)
(* of the child it has just invoked.                                       *)
(***************************************************************************)
mapBody(p, res) ==
    IF ~res.success THEN res
    ELSE okWithValue(res.offset, MapFn(p.fn, res.value))

\* filter with every rejection made fatal
filterBodyFatal(p, res, off) ==
    IF ~res.success THEN res
    ELSE IF ~FilterFn(p.fn, res.value) THEN error(off, p.e.v, TRUE)
    ELSE res

\* filter that reports a rejection where its parser ended
filterBodyAtInnerOffset(p, res, off) ==
    IF ~res.success THEN res
    ELSE IF ~FilterFn(p.fn, res.value) THEN error(res.offset, p.e.v, p.f)
    ELSE res

filterBody(p, res, off) ==
    IF ~res.success THEN res
    ELSE IF ~FilterFn(p.fn, res.value) THEN error(off, p.e.v, p.f)
    ELSE res

\* optional that turns a fatal failure into success too
optionalBodyAnyFailure(res, off) ==
    IF ~res.success THEN okWithValue(off, Null)
    ELSE res

optionalBody(res, off) ==
    IF ~res.success /\ ~res.fatal THEN okWithValue(off, Null)
    ELSE res

recognizeBody(res, in, off) ==
    IF ~res.success THEN res
    ELSE okWithValue(res.offset, Str(Text(Slice(in, off, res.offset))))

\* peek that consumes what its parser matched
peekBodyConsumes(res, off) == res

peekBody(res, off) ==
    IF ~res.success THEN res
    ELSE okWithValue(off, res.value)

notBody(p, res, off) ==
    IF ~res.success THEN ok(off)
    ELSE error(off, p.e.v, FALSE)

\* cut that leaves a failure as it is
cutBodyKeepsFailure(res) == res

cutBody(res) ==
    IF ~res.success THEN error(res.offset, res.expected, TRUE)
    ELSE res

\* then: after parser1 succeeded with r1 and parser2 returned r2
thenBody(p, r1, r2) ==
    IF ~r2.success THEN r2
    ELSE okWithValue(r2.offset, JoinFn(p.fn, r1.value, r2.value))

\* or that goes on to the next branch after a fatal failure
orBranchPastFatal(res) ==
    IF res.success THEN "return"
    ELSE "continue"

\* or that gives up at the first branch that fails
orBranchFirstOnly(res) == "return"

\* or: whether the loop returns the branch's result res at once
orBranch(res) ==
    IF res.success THEN "return"
    ELSE IF res.fatal THEN "return"
    ELSE "continue"

\* or: the loop body after a branch failed with res; lastError is <<>> (null)
\* or <<the running failure>>; `expected` is or's captured variable
orUpdate(lastError, res, expected) ==
    IF lastError = <<>> \/ res.offset > lastError[1].offset THEN <<res>>
    ELSE IF res.offset = lastError[1].offset /\ ~expected.set
    THEN <<[lastError[1] EXCEPT !.expected = lastError[1].expected \o res.expected]>>
    ELSE lastError

\* or: `expected = expected || lastError?.expected || []`, the new value of
\* the captured variable
orExpected(lastError, expected) ==
    IF expected.set THEN expected
    ELSE IF lastError # <<>> THEN Expected(lastError[1].expected)
    ELSE Expected(<<>>)

\* or: what is returned once every branch has failed; `expected` as just assigned
orFail(lastError, expected, off) ==
    IF lastError # <<>> THEN [lastError[1] EXCEPT !.expected = expected.v]
    ELSE error(off, expected.v, FALSE)

\* star that tests for progress before it keeps the value
starStepDropsLast(res, nextOff, vs) ==
    IF ~res.success
    THEN IF res.fatal
         THEN [exit |-> "return", nextOffset |-> nextOff, ts |-> vs]
         ELSE [exit |-> "break", nextOffset |-> nextOff, ts |-> vs]
    ELSE IF res.offset = nextOff
         THEN [exit |-> "break", nextOffset |-> nextOff, ts |-> vs]
         ELSE [exit |-> "continue", nextOffset |-> res.offset, ts |-> Append(vs, res.value)]

\* star that resumes where the failed iteration stopped
starStepKeepsPartial(res, nextOff, vs) ==
    IF ~res.success
    THEN IF res.fatal
         THEN [exit |-> "return", nextOffset |-> nextOff, ts |-> vs]
         ELSE [exit |-> "break", nextOffset |-> res.offset, ts |-> vs]
    ELSE IF res.offset = nextOff
         THEN [exit |-> "break", nextOffset |-> nextOff, ts |-> Append(vs, res.value)]
         ELSE [exit |-> "continue", nextOffset |-> res.offset, ts |-> Append(vs, res.value)]

\* star: one pass of the loop body on the inner parser's result
starStep(res, nextOff, vs) ==
    IF ~res.success
    THEN IF res.fatal
         THEN [exit |-> "return", nextOffset |-> nextOff, ts |-> vs]
         ELSE [exit |-> "break", nextOffset |-> nextOff, ts |-> vs]
    ELSE IF res.offset = nextOff
         THEN [exit |-> "break", nextOffset |-> nextOff, ts |-> Append(vs, res.value)]
         ELSE [exit |-> "continue", nextOffset |-> res.offset, ts |-> Append(vs, res.value)]

\* starConsumed without the test for progress
starConsumedStepNoTest(res, nextOff) ==
    IF ~res.success
    THEN IF res.fatal
         THEN [exit |-> "return", nextOffset |-> nextOff, ts |-> <<>>]
         ELSE [exit |-> "break", nextOffset |-> nextOff, ts |-> <<>>]
    ELSE [exit |-> "continue", nextOffset |-> res.offset, ts |-> <<>>]

\* starConsumed that resumes where the failed iteration stopped
starConsumedStepKeepsPartial(res, nextOff) ==
    IF ~res.success
    THEN IF res.fatal
         THEN [exit |-> "return", nextOffset |-> nextOff, ts |-> <<>>]
         ELSE [exit |-> "break", nextOffset |-> res.offset, ts |-> <<>>]
    ELSE IF res.offset = nextOff
         THEN [exit |-> "break", nextOffset |-> nextOff, ts |-> <<>>]
         ELSE [exit |-> "continue", nextOffset |-> res.offset, ts |-> <<>>]

\* starConsumed: one pass of the loop body (no values are kept)
starConsumedStep(res, nextOff) ==
    IF ~res.success
    THEN IF res.fatal
         THEN [exit |-> "return", nextOffset |-> nextOff, ts |-> <<>>]
         ELSE [exit |-> "break", nextOffset |-> nextOff, ts |-> <<>>]
    ELSE IF res.offset = nextOff
         THEN [exit |-> "break", nextOffset |-> nextOff, ts |-> <<>>]
         ELSE [exit |-> "continue", nextOffset |-> res.offset, ts |-> <<>>]

\* dispatch: index of the parser mapping[cp], 0 when mapping[cp] is undefined
MappingIndex(p, cp) ==
    IF \E i \in 1..Len(p.keys) : p.keys[i] = cp
    THEN CHOOSE i \in 1..Len(p.keys) : p.keys[i] = cp
    ELSE 0

\* dispatch that turns to `otherwise` when there is no code point to look at
dispatchChoiceOtherwiseAtEnd(p, in, off) ==
    LET cp == CodePointAt(in, off + p.n)
        i == IF cp = -1 THEN 0 ELSE MappingIndex(p, cp)
    IN IF i = 0
       THEN IF ~p.f THEN 0 ELSE Len(p.c)
       ELSE i

\* dispatch: the child it invokes (0: none, it fails with `expected` itself)
dispatchChoice(p, in, off) ==
    LET cp == CodePointAt(in, off + p.n)
    IN IF cp = -1 THEN 0
       ELSE LET i == MappingIndex(p, cp)
            IN IF i = 0
               THEN IF ~p.f THEN 0 ELSE Len(p.c)
               ELSE i

(***************************************************************************)
(* Invocation of a parser value: Apply(p, in, off) is the outcome of       *)
(* p(in, off): the ParseResult, the parser value afterwards, and the       *)
(* invocations of p's direct children that were made, in order.            *)
(***************************************************************************)
Outcome(res, p, log) == [res |-> res, p |-> p, calls |-> log]

Call(i, off, res) == [i |-> i, offset |-> off, res |-> res]

RECURSIVE Apply(_, _, _)
RECURSIVE orLoop(_, _, _, _, _, _)
RECURSIVE starLoop(_, _, _, _, _, _)

orLoop(p, in, off, i, lastError, log) ==
    IF i > Len(p.c)
    THEN LET expected == orExpected(lastError, p.e)
         IN Outcome(orFail(lastError, expected, off), [p EXCEPT !.e = expected], log)
    ELSE LET a == Apply(p.c[i], in, off)
             p2 == [p EXCEPT !.c[i] = a.p]
             log2 == Append(log, Call(i, off, a.res))
         IN IF orBranch(a.res) = "return" THEN Outcome(a.res, p2, log2)
            ELSE orLoop(p2, in, off, i + 1, orUpdate(lastError, a.res, p.e), log2)

\* the loop of star (consumed = FALSE) and of starConsumed (consumed = TRUE)
\* over the inner parser `kid`; .p of the outcome is the inner parser afterwards
starLoop(kid, consumed, in, nextOff, vs, log) ==
    LET a == Apply(kid, in, nextOff)
        s == IF consumed THEN starConsumedStep(a.res, nextOff) ELSE starStep(a.res, nextOff, vs)
        log2 == Append(log, Call(1, nextOff, a.res))
    IN CASE s.exit = "return" -> Outcome(a.res, a.p, log2)
         [] s.exit = "break" ->
                Outcome(IF consumed THEN ok(s.nextOffset) ELSE okWithValue(s.nextOffset, List(s.ts)),
                        a.p, log2)
         [] s.exit = "continue" -> starLoop(a.p, consumed, in, s.nextOffset, s.ts, log2)

Apply(p, in, off) ==
    CASE p.k = "token" -> Outcome(tokenBody(p, in, off), p, <<>>)
      [] p.k = "codepoint" -> Outcome(codepointBody(p, in, off), p, <<>>)
      [] p.k = "codepoints" -> Outcome(codepointsBody(p, in, off), p, <<>>)
      [] p.k = "skipChars" -> Outcome(skipCharsBody(p, in, off), p, <<>>)
      [] p.k = "start" -> Outcome(startBody(in, off), p, <<>>)
      [] p.k = "end" -> Outcome(endBody(in, off), p, <<>>)
      [] p.k \in {"map", "filter", "optional", "recognize", "peek", "not", "cut"} ->
            LET a == Apply(p.c[1], in, off)
                res == CASE p.k = "map" -> mapBody(p, a.res)
                         [] p.k = "filter" -> filterBody(p, a.res, off)
                         [] p.k = "optional" -> optionalBody(a.res, off)
                         [] p.k = "recognize" -> recognizeBody(a.res, in, off)
                         [] p.k = "peek" -> peekBody(a.res, off)
                         [] p.k = "not" -> notBody(p, a.res, off)
                         [] p.k = "cut" -> cutBody(a.res)
            IN Outcome(res, [p EXCEPT !.c[1] = a.p], <<Call(1, off, a.res)>>)
      [] p.k = "then" ->
            LET a1 == Apply(p.c[1], in, off)
            IN IF ~a1.res.success
               THEN Outcome(a1.res, [p EXCEPT !.c[1] = a1.p], <<Call(1, off, a1.res)>>)
               ELSE LET a2 == Apply(p.c[2], in, a1.res.offset)
                    IN Outcome(thenBody(p, a1.res, a2.res),
                               [p EXCEPT !.c = <<a1.p, a2.p>>],
                               <<Call(1, off, a1.res), Call(2, a1.res.offset, a2.res)>>)
      [] p.k = "or" -> orLoop(p, in, off, 1, <<>>, <<>>)
      [] p.k \in {"star", "starConsumed"} ->
            LET a == starLoop(p.c[1], p.k = "starConsumed", in, off, <<>>, <<>>)
            IN Outcome(a.res, [p EXCEPT !.c[1] = a.p], a.calls)
      [] p.k \in {"plus", "plusConsumed"} ->
            LET a1 == Apply(p.c[1], in, off)
            IN IF ~a1.res.success
               THEN Outcome(a1.res, [p EXCEPT !.c[1] = a1.p], <<Call(1, off, a1.res)>>)
               ELSE LET a2 == starLoop(a1.p, p.k = "plusConsumed", in, a1.res.offset,
                                       <<>>, <<Call(1, off, a1.res)>>)
                    IN Outcome(thenBody(p, a1.res, a2.res), [p EXCEPT !.c[1] = a2.p], a2.calls)
      [] p.k = "dispatch" ->
            LET i == dispatchChoice(p, in, off)
            IN IF i = 0 THEN Outcome(error(off, p.e.v, FALSE), p, <<>>)
               ELSE LET a == Apply(p.c[i], in, off)
                    IN Outcome(a.res, [p EXCEPT !.c[i] = a.p], <<Call(i, off, a.res)>>)

(***************************************************************************)
(* Streaming parsers.  Collect(p, in, off) is collect(p(in, off)): the     *)
(* generator run to its end, the values it yielded and the ParseResult it  *)
(* returned (and the parser value afterwards).                             *)
(***************************************************************************)
Collected(values, res, p) == [values |-> values, res |-> res, p |-> p]

\* streamingStar that, on a non-fatal failure, succeeds where the failure is
streamingStarStepAtFailure(values, res, off, yielded) ==
    IF ~res.success
    THEN IF res.fatal
         THEN [exit |-> "return", res |-> res, offset |-> off, yielded |-> yielded]
         ELSE [exit |-> "return", res |-> ok(res.offset), offset |-> off, yielded |-> yielded]
    ELSE IF off = res.offset
         THEN [exit |-> "return", res |-> ok(off), offset |-> off, yielded |-> yielded \o values]
         ELSE [exit |-> "continue", res |-> res, offset |-> res.offset,
               yielded |-> yielded \o values]

\* streamingStar: one pass of the loop body on collect()'s [values, result];
\* `yielded` are the values yielded to the caller so far
streamingStarStep(values, res, off, yielded) ==
    IF ~res.success
    THEN IF res.fatal
         THEN [exit |-> "return", res |-> res, offset |-> off, yielded |-> yielded]
         ELSE [exit |-> "return", res |-> ok(off), offset |-> off, yielded |-> yielded]
    ELSE IF off = res.offset
         THEN [exit |-> "return", res |-> ok(off), offset |-> off, yielded |-> yielded \o values]
         ELSE [exit |-> "continue", res |-> res, offset |-> res.offset,
               yielded |-> yielded \o values]

\* streamingOptional, on collect()'s [values, result]
streamingOptionalBody(values, res, off) ==
    IF ~res.success
    THEN IF res.fatal THEN [values |-> <<>>, res |-> res]
         ELSE [values |-> <<>>, res |-> ok(off)]
    ELSE [values |-> values, res |-> res]

RECURSIVE Collect(_, _, _)
RECURSIVE streamingStarLoop(_, _, _, _)

streamingStarLoop(kid, in, off, yielded) ==
    LET c == Collect(kid, in, off)
        s == streamingStarStep(c.values, c.res, off, yielded)
    IN IF s.exit = "return" THEN Collected(s.yielded, s.res, c.p)
       ELSE streamingStarLoop(c.p, in, s.offset, s.yielded)

Collect(p, in, off) ==
    CASE p.k = "streaming" ->
            LET a == Apply(p.c[1], in, off)
            IN Collected(IF a.res.success THEN <<a.res.value>> ELSE <<>>, a.res,
                         [p EXCEPT !.c[1] = a.p])
      [] p.k = "streamingThen" ->
            LET c1 == Collect(p.c[1], in, off)
            IN IF ~c1.res.success
               THEN Collected(c1.values, c1.res, [p EXCEPT !.c[1] = c1.p])
               ELSE LET c2 == Collect(p.c[2], in, c1.res.offset)
                    IN Collected(c1.values \o c2.values, c2.res, [p EXCEPT !.c = <<c1.p, c2.p>>])
      [] p.k = "streamingFilterUndefined" ->
            LET c == Collect(p.c[1], in, off)
            IN Collected(SelectSeq(c.values, LAMBDA x : x # Undefined), c.res,
                         [p EXCEPT !.c[1] = c.p])
      [] p.k = "streamingStar" ->
            LET c == streamingStarLoop(p.c[1], in, off, <<>>)
            IN Collected(c.values, c.res, [p EXCEPT !.c[1] = c.p])
      [] p.k = "streamingOptional" ->
            LET c == Collect(p.c[1], in, off)
                b == streamingOptionalBody(c.values, c.res, off)
            IN Collected(b.values, b.res, [p EXCEPT !.c[1] = c.p])
      [] p.k = "streamingComplete" ->
            LET c == Collect(p.c[1], in, off)
            IN Collected(c.values, IF ~c.res.success THEN c.res ELSE endBody(in, c.res.offset),
                         [p EXCEPT !.c[1] = c.p])

(***************************************************************************)
(* The grammars the model builds.                                          *)
(***************************************************************************)
tokA == token(<<"a">>)
tokB == token(<<"b">>)
tokAB == token(<<"a", "b">>)

Prims ==
    {tokA, tokB, tokAB, token(<<>>),
     codepoint("isA", <<"A">>), codepoints("isA", NoExpected),
     codepoints("isA", Expected(<<"As">>)), range(97, 98, NoExpected),
     skipChars(2), start, end}

\* small parsers that fail at different offsets, fatally or not, or match
\* without consuming
Small ==
    {tokA, tokB, then(tokA, tokB, "pair"), preceded(tokA, tokA),
     cut(tokA), cut(tokB), preceded(tokA, cut(tokB)), peek(tokA), not(tokB, <<"not b">>)}

Inner ==
    Prims \cup Small \cup
    {optional(tokB), or(<<tokAB, tokB>>, NoExpected),
     or(<<preceded(tokA, tokB), tokB>>, NoExpected),
     filter(tokA, "reject", <<"rejected">>, FALSE),
     filter(tokA, "reject", <<"rejected">>, TRUE),
     delimited(tokA, tokB, tokA, TRUE), delimited(tokA, tokB, tokA, FALSE),
     star(tokA), followed(tokA, cut(preceded(tokA, tokB)))}

Unary(S) ==
    UNION {{map(p, "wrap"), consume(p), filter(p, "accept", <<"accepted">>, FALSE),
            filter(p, "isA", <<"is a">>, FALSE), optional(p), star(p), starConsumed(p),
            plus(p), plusConsumed(p), recognize(p), peek(p), not(p, <<"not">>), cut(p),
            complete(p), filterUndefined(star(p))} : p \in S}

Binary(S) ==
    UNION {{then(p, q, "pair"), preceded(p, q), followed(p, q), except(p, q, <<"except">>),
            dispatch(<<97>>, <<p>>, TRUE, q, 0, <<"dispatch">>),
            dispatch(<<98>>, <<p>>, FALSE, q, 1, <<"dispatch">>),
            dispatch(<<98>>, <<p>>, TRUE, q, 1, <<"dispatch">>),
            or(<<p, q>>, NoExpected), or(<<p, q>>, Expected(<<"either">>))} : p \in S, q \in S}

Ternary(S) ==
    UNION {{or(<<p, q, r>>, NoExpected), or(<<p, q, r>>, Expected(<<"one of three">>))} :
             p \in S, q \in S, r \in S}

\* delimited over delimiters and contents that fail at different stages, and
\* the parsers that would backtrack around it
Delimiteds ==
    {delimited(open, inner, close, cutAfterOpen) :
        open \in {tokA, tokAB, cut(tokA)},
        inner \in {tokB, optional(tokB), preceded(tokB, tokB), cut(tokB)},
        close \in {tokA, tokB},
        cutAfterOpen \in BOOLEAN}

AroundDelimited ==
    UNION {{optional(d), or(<<d, tokA>>, NoExpected)} : d \in Delimiteds}

Grammars ==
    Inner \cup Unary(Inner) \cup Binary(Small) \cup Ternary({tokA, preceded(tokA, tokB), cut(tokB)})
    \cup {or(<<>>, NoExpected), or(<<>>, Expected(<<"nothing">>))}
    \cup Delimiteds \cup AroundDelimited

(***************************************************************************)
(* A caller builds a parser value once and invokes it, again and again.    *)
(***************************************************************************)
NoResult == error(-1, <<>>, FALSE)

Init ==
    /\ made \in Grammars
    /\ parser = made
    /\ input \in Inputs
    /\ offset = 0
    /\ result = NoResult
    /\ calls = <<>>
    /\ invoked = FALSE
    /\ pc = "idle"
    /\ nextOffset = 0
    /\ ts = <<>>
    /\ iters = 0

\* parser(input, off)
Invoke(off) ==
    LET a == Apply(parser, input, off)
    IN /\ parser' = a.p
       /\ offset' = off
       /\ result' = a.res
       /\ calls' = a.calls
       /\ invoked' = TRUE
       /\ UNCHANGED <<made, input, pc, nextOffset, ts, iters>>

Next == \E off \in 0..Len(input) : Invoke(off)

Spec == Init /\ [][Next]_vars

(***************************************************************************)
(* The repetition loops, one pass of the loop per step: star(p),           *)
(* starConsumed(p) and streamingStar(p) invoked on (input, offset).        *)
(***************************************************************************)
StreamingInner ==
    {streaming(p) : p \in Inner}
    \cup {streamingThen(streaming(p), streaming(q)) : p \in {tokA, tokB}, q \in Small}
    \cup {streamingOptional(streaming(p)) : p \in Small}
    \cup {streamingFilterUndefined(streaming(consume(tokA))),
          streamingComplete(streaming(optional(tokA))), streamingStar(streaming(tokA))}

Loops ==
    {star(p) : p \in Inner} \cup {starConsumed(p) : p \in Inner}
    \cup {streamingStar(p) : p \in StreamingInner}

\* no call of a terminating loop comes near this many passes
MaxIters == MaxLen + 3

InitLoop ==
    /\ made \in Loops
    /\ parser = made
    /\ input \in Inputs
    /\ offset \in 0..Len(input)
    /\ result = NoResult
    /\ calls = <<>>
    /\ invoked = FALSE
    /\ pc = "loop"
    /\ nextOffset = offset
    /\ ts = <<>>
    /\ iters = 0

StarIteration ==
    /\ pc = "loop"
    /\ parser.k = "star"
    /\ iters < MaxIters
    /\ LET a == Apply(parser.c[1], input, nextOffset)
           s == starStep(a.res, nextOffset, ts)
       IN /\ parser' = [parser EXCEPT !.c[1] = a.p]
          /\ calls' = Append(calls, Call(1, nextOffset, a.res))
          /\ iters' = iters + 1
          /\ nextOffset' = s.nextOffset
          /\ ts' = s.ts
          /\ pc' = IF s.exit = "continue" THEN "loop" ELSE "done"
          /\ result' = CASE s.exit = "return" -> a.res
                         [] s.exit = "break" -> okWithValue(s.nextOffset, List(s.ts))
                         [] s.exit = "continue" -> result
          /\ invoked' = (s.exit # "continue")
          /\ UNCHANGED <<made, input, offset>>

StarConsumedIteration ==
    /\ pc = "loop"
    /\ parser.k = "starConsumed"
    /\ iters < MaxIters
    /\ LET a == Apply(parser.c[1], input, nextOffset)
           s == starConsumedStep(a.res, nextOffset)
       IN /\ parser' = [parser EXCEPT !.c[1] = a.p]
          /\ calls' = Append(calls, Call(1, nextOffset, a.res))
          /\ iters' = iters + 1
          /\ nextOffset' = s.nextOffset
          /\ pc' = IF s.exit = "continue" THEN "loop" ELSE "done"
          /\ result' = CASE s.exit = "return" -> a.res
                         [] s.exit = "break" -> ok(s.nextOffset)
                         [] s.exit = "continue" -> result
          /\ invoked' = (s.exit # "continue")
          /\ UNCHANGED <<made, input, offset, ts>>

StreamingStarIteration ==
    /\ pc = "loop"
    /\ parser.k = "streamingStar"
    /\ iters < MaxIters
    /\ LET c == Collect(parser.c[1], input, nextOffset)
           s == streamingStarStep(c.values, c.res, nextOffset, ts)
       IN /\ parser' = [parser EXCEPT !.c[1] = c.p]
          /\ calls' = Append(calls, Call(1, nextOffset, c.res))
          /\ iters' = iters + 1
          /\ nextOffset' = s.offset
          /\ ts' = s.yielded
          /\ pc' = IF s.exit = "continue" THEN "loop" ELSE "done"
          /\ result' = IF s.exit = "return" THEN s.res ELSE result
          /\ invoked' = (s.exit # "continue")
          /\ UNCHANGED <<made, input, offset>>

NextLoop == StarIteration \/ StarConsumedIteration \/ StreamingStarIteration

\* a call runs until it returns
LoopSpec == InitLoop /\ [][NextLoop]_vars /\ WF_vars(NextLoop)

(***************************************************************************)
(* The byte-oriented variant (utf8.ts).  The input is an array of bytes,   *)
(* offsets count bytes.                                                    *)
(***************************************************************************)
\* input[i]; -1 stands for undefined
ByteAt(in, i) == IF i >= 0 /\ i < Len(in) THEN in[i + 1] ELSE -1

getUtf8Length(cp) ==
    IF cp <= 127 THEN 1
    ELSE IF cp <= 2047 THEN 2
    ELSE IF cp <= 65535 THEN 3
    ELSE 4

\* -1 stands for undefined, -2 for the thrown Error('invalid utf-8 character').
\* On a byte b, b & 0x80 = 0 is b < 128, (b & 0xE0) = 0xC0 is b \div 32 = 6,
\* b & 0x1F is b % 32 and x << 6 is x * 64; the parts or-ed together share no bit.
getUtf8Codepoint(in, off) ==
    \* byte2, byte3, byte4: the source's `second`, `third`, `fourth`
    LET cp == IF ByteAt(in, off) = -1 THEN 0 ELSE ByteAt(in, off)   \* input[offset] | 0
        byte2 == ByteAt(in, off + 1)
        byte3 == ByteAt(in, off + 2)
        byte4 == ByteAt(in, off + 3)
    IN IF cp < 128 THEN cp
       ELSE IF byte2 = -1 THEN -1
       ELSE IF cp \div 32 = 6 THEN (cp % 32) * 64 + (byte2 % 64)
       ELSE IF byte3 = -1 THEN -1
       ELSE IF cp \div 16 = 14 THEN (cp % 16) * 4096 + (byte2 % 64) * 64 + (byte3 % 64)
       ELSE IF byte4 = -1 THEN -1
       ELSE IF cp \div 8 = 30
       THEN (cp % 16) * 262144 + (byte2 % 64) * 4096 + (byte3 % 64) * 64 + (byte4 % 64)
       ELSE -2

\* Array.from(token, (c) => c.codePointAt(0)): the code points of a string
RECURSIVE CodePoints(_)
CodePoints(s) ==
    IF s = <<>> THEN <<>>
    ELSE LET cp == CodePointAt(s, 0)
         IN <<cp>> \o CodePoints(SubSeq(s, lengthFromCodePoint(cp) + 1, Len(s)))

tokenUtf8(tok) == [Node("tokenUtf8") EXCEPT !.tok = tok]

codepointUtf8(isMatch, expected) ==
    [Node("codepointUtf8") EXCEPT !.fn = isMatch, !.e = Expected(expected)]

codepointsUtf8(isMatch, expected) ==
    [Node("codepointsUtf8") EXCEPT !.fn = isMatch, !.e = expected]

rangeUtf8(firstCodePoint, lastCodePoint, expected) ==
    [codepointUtf8("range",
                   IF expected.set THEN expected.v
                   ELSE <<FromCodePoint(firstCodePoint) \o "-" \o FromCodePoint(lastCodePoint)>>)
     EXCEPT !.n = firstCodePoint, !.m = lastCodePoint]

skipCharsUtf8(nCodepoints) == [Node("skipCharsUtf8") EXCEPT !.n = nCodepoints]

dispatchUtf8(keys, parsers, hasOtherwise, otherwise, extraOffset, expected) ==
    [Node("dispatchUtf8") EXCEPT !.keys = keys, !.f = hasOtherwise, !.n = extraOffset,
                                 !.e = Expected(expected),
                                 !.c = IF hasOtherwise THEN Append(parsers, otherwise) ELSE parsers]

recognizeUtf8(p) == [Node("recognizeUtf8") EXCEPT !.c = <<p>>]

\* How a call ends: it returns a ParseResult, it throws, or it never returns
Returns(res, log) == [exit |-> "returned", res |-> res, calls |-> log]
Throws == [exit |-> "thrown", res |-> NoResult, calls |-> <<>>]
NeverReturns == [exit |-> "running", res |-> NoResult, calls |-> <<>>]

RECURSIVE tokenUtf8Loop(_, _, _, _, _)
tokenUtf8Loop(p, in, off, i, initialOffset) ==
    LET encoded == CodePoints(p.tok)
    IN IF i < Len(encoded)
       THEN LET cp == getUtf8Codepoint(in, off)
            IN IF cp = -2 THEN Throws
               ELSE IF cp = -1 \/ cp # encoded[i + 1]
               THEN Returns(error(initialOffset, <<Text(p.tok)>>, FALSE), <<>>)
               ELSE tokenUtf8Loop(p, in, off + getUtf8Length(cp), i + 1, initialOffset)
       ELSE Returns(okWithValue(off, Str(Text(p.tok))), <<>>)

tokenUtf8Body(p, in, off) == tokenUtf8Loop(p, in, off, 0, off)

codepointUtf8Body(p, in, off) ==
    LET cp == getUtf8Codepoint(in, off)
    IN IF cp = -2 THEN Throws
       ELSE IF cp = -1 \/ ~IsMatch(p, cp) THEN Returns(error(off, p.e.v, FALSE), <<>>)
       ELSE Returns(ok(off + getUtf8Length(cp)), <<>>)

\* codepointsUtf8: one pass of `while (true)` at `off`
codepointsUtf8Step(p, in, off) ==
    LET cp == getUtf8Codepoint(in, off)
    IN IF cp = -2 THEN [exit |-> "throw", offset |-> off]
       ELSE IF cp = -1 THEN [exit |-> "break", offset |-> off]
       ELSE IF ~IsMatch(p, cp) THEN [exit |-> "break", offset |-> off]
       ELSE [exit |-> "continue", offset |-> off + getUtf8Length(cp)]

\* codepointsUtf8: what follows the loop
codepointsUtf8End(p, startOffset, off) ==
    IF p.e.set /\ off = startOffset THEN error(off, p.e.v, FALSE)
    ELSE ok(off)

\* The loop as a whole.  From the end of the input on, every pass reads the
\* same undefined bytes: a pass that continues there is followed by passes
\* that continue, without end.
RECURSIVE codepointsUtf8Loop(_, _, _, _)
codepointsUtf8Loop(p, in, off, startOffset) ==
    LET s == codepointsUtf8Step(p, in, off)
    IN CASE s.exit = "throw" -> Throws
         [] s.exit = "break" -> Returns(codepointsUtf8End(p, startOffset, s.offset), <<>>)
         [] s.exit = "continue" ->
                IF off >= Len(in) THEN NeverReturns
                ELSE codepointsUtf8Loop(p, in, s.offset, startOffset)

codepointsUtf8Body(p, in, off) == codepointsUtf8Loop(p, in, off, off)

RECURSIVE skipCharsUtf8Loop(_, _, _)
skipCharsUtf8Loop(in, off, i) ==
    IF i > 0
    THEN LET cp == getUtf8Codepoint(in, off)
         IN IF cp = -2 THEN Throws
            ELSE IF cp = -1 THEN Returns(error(off, <<"any character">>, FALSE), <<>>)
            ELSE skipCharsUtf8Loop(in, off + getUtf8Length(cp), i - 1)
    ELSE Returns(ok(off), <<>>)

skipCharsUtf8Body(p, in, off) == skipCharsUtf8Loop(in, off, p.n)

\* dispatchUtf8: the child it invokes (0: none, it fails with `expected`
\* itself; -2: getUtf8Codepoint threw)
dispatchUtf8Choice(p, in, off) ==
    LET cp == getUtf8Codepoint(in, off + p.n)
    IN IF cp = -2 THEN -2
       ELSE IF cp = -1 THEN 0
       ELSE LET i == MappingIndex(p, cp)
            IN IF i = 0
               THEN IF ~p.f THEN 0 ELSE Len(p.c)
               ELSE i

\* String.fromCodePoint(...codepoints)
RECURSIVE FromCodePoints(_)
FromCodePoints(cps) ==
    IF cps = <<>> THEN "" ELSE FromCodePoint(Head(cps)) \o FromCodePoints(Tail(cps))

\* recognizeUtf8: the walk from `off` to res.offset; <<-2>> when it throws;
\* cps is the source's `codepoints`.
\* An undefined code point is pushed as it is and String.fromCodePoint then
\* throws a RangeError.
RECURSIVE recognizeUtf8Loop(_, _, _, _)
recognizeUtf8Loop(in, off, resOffset, cps) ==
    IF off < resOffset
    THEN LET cp == getUtf8Codepoint(in, off)
         IN IF cp < 0 THEN <<-2>>
            ELSE recognizeUtf8Loop(in, off + getUtf8Length(cp), resOffset, Append(cps, cp))
    ELSE cps

\* recognizeUtf8, on the result res its parser returned
recognizeUtf8Body(res, in, off) ==
    IF ~res.success THEN Returns(res, <<Call(1, off, res)>>)
    ELSE LET cps == recognizeUtf8Loop(in, off, res.offset, <<>>)
         IN IF cps = <<-2>> THEN Throws
            ELSE Returns(okWithValue(res.offset, Str(FromCodePoints(cps))),
                         <<Call(1, off, res)>>)

\* p(input, offset) for a parser of the byte-oriented variant
RECURSIVE ApplyUtf8(_, _, _)
ApplyUtf8(p, in, off) ==
    CASE p.k = "tokenUtf8" -> tokenUtf8Body(p, in, off)
      [] p.k = "codepointUtf8" -> codepointUtf8Body(p, in, off)
      [] p.k = "codepointsUtf8" -> codepointsUtf8Body(p, in, off)
      [] p.k = "skipCharsUtf8" -> skipCharsUtf8Body(p, in, off)
      [] p.k = "recognizeUtf8" ->
            LET a == ApplyUtf8(p.c[1], in, off)
            IN IF a.exit = "returned" THEN recognizeUtf8Body(a.res, in, off) ELSE a
      [] p.k = "dispatchUtf8" ->
            LET i == dispatchUtf8Choice(p, in, off)
            IN IF i = -2 THEN Throws
               ELSE IF i = 0 THEN Returns(error(off, p.e.v, FALSE), <<>>)
               ELSE LET a == ApplyUtf8(p.c[i], in, off)
                    IN IF a.exit = "returned" THEN Returns(a.res, <<Call(i, off, a.res)>>)
                       ELSE a

(***************************************************************************)
(* The byte inputs: the UTF-8 encodings of strings of one-, two-, three-   *)
(* and four-byte code points, whole and cut short.                         *)
(***************************************************************************)
Utf8Units == {"a", "e", "E", "H", "L"}

IsSurrogate(cp) == cp >= 55296 /\ cp <= 57343

\* strings without a lone surrogate: the strings that have a UTF-8 encoding
WellFormed(s) == \A i \in 1..Len(CodePoints(s)) : ~IsSurrogate(CodePoints(s)[i])

Utf8Strings == {s \in SeqsUpTo(Utf8Units, MaxLen) : WellFormed(s)}

\* the bytes of one code point, in the layouts getUtf8Codepoint reads
Utf8Bytes(cp) ==
    IF cp <= 127 THEN <<cp>>
    ELSE IF cp <= 2047 THEN <<192 + (cp \div 64), 128 + (cp % 64)>>
    ELSE IF cp <= 65535
    THEN <<224 + (cp \div 4096), 128 + ((cp \div 64) % 64), 128 + (cp % 64)>>
    ELSE <<240 + (cp \div 262144), 128 + ((cp \div 4096) % 64),
           128 + ((cp \div 64) % 64), 128 + (cp % 64)>>

RECURSIVE EncodePoints(_)
EncodePoints(cps) ==
    IF cps = <<>> THEN <<>> ELSE Utf8Bytes(Head(cps)) \o EncodePoints(Tail(cps))

EncodeUtf8(s) == EncodePoints(CodePoints(s))

EncodingTable == [s \in Utf8Strings |-> EncodeUtf8(s)]

Prefixes(b) == {SubSeq(b, 1, n) : n \in 0..Len(b)}

\* arrays that are no encoding: a lead byte followed by bytes that do not
\* continue it, an overlong form of "a", and bytes that cannot lead
Malformed ==
    {<<195, 97>>, <<195, 41>>, <<193, 161>>, <<226, 97, 97>>, <<226, 130, 97>>,
     <<240, 97, 97, 97>>, <<128>>, <<128, 128, 128, 128>>, <<248>>, <<248, 128>>,
     <<248, 128, 128, 128>>, <<255, 97, 97, 97, 97>>}

ByteInputs == UNION {Prefixes(EncodingTable[s]) : s \in Utf8Strings} \cup Malformed

Utf8Prims ==
    {tokenUtf8(<<"a">>), tokenUtf8(<<"a", "e">>), tokenUtf8(<<"E">>), tokenUtf8(<<"H", "L">>),
     tokenUtf8(<<>>), tokenUtf8(<<"e">>),
     codepointUtf8("any", <<"any">>), codepointUtf8("isA", <<"A">>),
     codepointUtf8("astral", <<"astral">>),
     rangeUtf8(97, 98, NoExpected), rangeUtf8(97, 8364, Expected(<<"a to euro">>)),
     skipCharsUtf8(0), skipCharsUtf8(1), skipCharsUtf8(2)}
    \cup {codepointsUtf8(fn, e) : fn \in {"any", "isA", "astral"},
                                  e \in {NoExpected, Expected(<<"some">>)}}

Recognized ==
    {recognizeUtf8(p) :
        p \in {tokenUtf8(<<"H", "L">>), tokenUtf8(<<"a", "e">>), codepointUtf8("any", <<"any">>),
               codepointsUtf8("isA", NoExpected), codepointsUtf8("astral", Expected(<<"some">>)),
               codepointsUtf8("any", NoExpected), skipCharsUtf8(2)}}

Utf8Grammars ==
    Utf8Prims \cup Recognized \cup
    {dispatchUtf8(<<97>>, <<tokenUtf8(<<"a", "e">>)>>, TRUE, codepointUtf8("any", <<"any">>),
                  0, <<"dispatch">>),
     dispatchUtf8(<<233, 97>>, <<skipCharsUtf8(2), tokenUtf8(<<"a">>)>>, FALSE, tokenUtf8(<<>>),
                  0, <<"dispatch">>),
     dispatchUtf8(<<97>>, <<skipCharsUtf8(2)>>, FALSE, tokenUtf8(<<>>), 1, <<"dispatch">>)}

(***************************************************************************)
(* A caller builds a parser of the byte-oriented variant and invokes it on *)
(* an array of bytes.  A call returns, throws, or never comes back.        *)
(***************************************************************************)
InitUtf8 ==
    /\ made \in Utf8Grammars
    /\ parser = made
    /\ input \in ByteInputs
    /\ offset = 0
    /\ result = NoResult
    /\ calls = <<>>
    /\ invoked = FALSE
    /\ pc = "idle"
    /\ nextOffset = 0
    /\ ts = <<>>
    /\ iters = 0

InvokeUtf8(off) ==
    /\ pc # "running"
    /\ LET a == ApplyUtf8(parser, input, off)
       IN /\ offset' = off
          /\ result' = a.res
          /\ calls' = a.calls
          /\ pc' = a.exit
          /\ invoked' = TRUE
          /\ UNCHANGED <<made, parser, input, nextOffset, ts, iters>>

NextUtf8 == \E off \in 0..Len(input) : InvokeUtf8(off)

Utf8Spec == InitUtf8 /\ [][NextUtf8]_vars

(***************************************************************************)
(* The predicate-run primitives, one pass of `while (true)` per step:      *)
(* codepoints(isMatch, expected) invoked on a string and                   *)
(* codepointsUtf8(isMatch, expected) on an array of bytes.                 *)
(***************************************************************************)
\* codepoints that steps one code unit past every code point
codepointsStepByUnit(p, in, off) ==
    LET cp == CodePointAt(in, off)
    IN IF cp = -1 THEN [exit |-> "break", offset |-> off]
       ELSE IF ~IsMatch(p, cp) THEN [exit |-> "break", offset |-> off]
       ELSE [exit |-> "continue", offset |-> off + 1]

\* codepoints: one pass of the loop at `off`
codepointsStep(p, in, off) ==
    LET cp == CodePointAt(in, off)
    IN IF cp = -1 THEN [exit |-> "break", offset |-> off]
       ELSE IF ~IsMatch(p, cp) THEN [exit |-> "break", offset |-> off]
       ELSE [exit |-> "continue", offset |-> off + (IF cp > 65535 THEN 2 ELSE 1)]

\* codepoints: what follows the loop
codepointsEnd(p, startOffset, off) ==
    IF p.e.set /\ off = startOffset THEN error(off, p.e.v, FALSE)
    ELSE ok(off)

Predicates == {"any", "isA", "astral"}

Runs ==
    {codepoints(fn, e) : fn \in Predicates, e \in {NoExpected, Expected(<<"some">>)}}
    \cup {codepointsUtf8(fn, e) : fn \in Predicates, e \in {NoExpected, Expected(<<"some">>)}}

\* strings, lone surrogates included
StringInputs == SeqsUpTo(Utf8Units, MaxLen)

\* no run that returns comes near this many passes
MaxPasses(in) == Len(in) + 2

InitRun ==
    /\ made \in Runs
    /\ parser = made
    /\ input \in (IF made.k = "codepoints" THEN StringInputs ELSE ByteInputs)
    /\ offset \in 0..Len(input)
    /\ result = NoResult
    /\ calls = <<>>
    /\ invoked = FALSE
    /\ pc = "loop"
    /\ nextOffset = offset
    /\ ts = <<>>
    /\ iters = 0

CodepointsPass ==
    /\ pc = "loop"
    /\ parser.k = "codepoints"
    /\ iters < MaxPasses(input)
    /\ LET s == codepointsStep(parser, input, nextOffset)
       IN /\ iters' = iters + 1
          /\ nextOffset' = s.offset
          /\ pc' = IF s.exit = "continue" THEN "loop" ELSE "done"
          /\ result' = IF s.exit = "break" THEN codepointsEnd(parser, offset, s.offset)
                       ELSE result
          /\ invoked' = (s.exit = "break")
          /\ UNCHANGED <<made, parser, input, offset, calls, ts>>

CodepointsUtf8Pass ==
    /\ pc = "loop"
    /\ parser.k = "codepointsUtf8"
    /\ iters < MaxPasses(input)
    /\ LET s == codepointsUtf8Step(parser, input, nextOffset)
       IN /\ iters' = iters + 1
          /\ nextOffset' = s.offset
          /\ pc' = CASE s.exit = "continue" -> "loop"
                      [] s.exit = "break" -> "done"
                      [] s.exit = "throw" -> "thrown"
          /\ result' = IF s.exit = "break" THEN codepointsUtf8End(parser, offset, s.offset)
                       ELSE result
          /\ invoked' = (s.exit = "break")
          /\ UNCHANGED <<made, parser, input, offset, calls, ts>>

NextRun == CodepointsPass \/ CodepointsUtf8Pass

RunSpec == InitRun /\ [][NextRun]_vars

(***************************************************************************)
(* Streaming parsers as generators.  Run(p, in, off) is what the generator *)
(* p(input, offset) does when it is run to its end, in order: the          *)
(* invocations of lifted parsers and the values yielded to its caller;     *)
(* then the ParseResult it returns and the parser value afterwards.        *)
(***************************************************************************)
CallEvent(off, res) == [e |-> "call", offset |-> off, res |-> res, value |-> NoValue]

YieldEvent(v) == [e |-> "yield", offset |-> -1, res |-> NoResult, value |-> v]

RECURSIVE ValuesOf(_)
ValuesOf(events) ==
    IF events = <<>> THEN <<>>
    ELSE (IF Head(events).e = "yield" THEN <<Head(events).value>> ELSE <<>>)
         \o ValuesOf(Tail(events))

RECURSIVE YieldAll(_)
YieldAll(values) ==
    IF values = <<>> THEN <<>> ELSE <<YieldEvent(Head(values))>> \o YieldAll(Tail(values))

\* collect(gen) that hands on what gen yields as it is yielded
collectForwarding(events) == [done |-> events, values |-> <<>>]

\* collect(gen): gen is run to its end, its invocations are made and what it
\* yields is kept in `values`, before the caller of collect goes on
collect(events) ==
    [done |-> SelectSeq(events, LAMBDA ev : ev.e = "call"), values |-> ValuesOf(events)]

\* streamingThen that starts parser2 at the offset it was itself started at
streamingThenStartOriginal(res1, off) == off

\* streamingThen: the offset parser2 is started at
streamingThenStart(res1, off) == res1.offset

Ran(events, res, p) == [events |-> events, res |-> res, p |-> p]

RECURSIVE Run(_, _, _)
RECURSIVE streamingStarRun(_, _, _, _)

\* streaming, after parser(input, offset) returned a
streamingRan(p, off, a) ==
    Ran(<<CallEvent(off, a.res)>>
        \o (IF a.res.success THEN <<YieldEvent(a.res.value)>> ELSE <<>>),
        a.res, [p EXCEPT !.c[1] = a.p])

\* streamingThen, after yield* parser1(input, offset) did r1
streamingThenRan(p, in, off, r1) ==
    IF ~r1.res.success THEN Ran(r1.events, r1.res, [p EXCEPT !.c[1] = r1.p])
    ELSE LET r2 == Run(p.c[2], in, streamingThenStart(r1.res, off))
         IN Ran(r1.events \o r2.events, r2.res, [p EXCEPT !.c = <<r1.p, r2.p>>])

\* streamingFilterUndefined, over what the inner generator did
streamingFilterUndefinedRan(p, r) ==
    Ran(SelectSeq(r.events, LAMBDA ev : ~(ev.e = "yield" /\ ev.value = Undefined)),
        r.res, [p EXCEPT !.c[1] = r.p])

\* streamingStar: one pass of the loop at `off`, after the events `before`;
\* r is what the inner generator did
streamingStarPass(in, off, before, r) ==
    LET c == collect(r.events)
        s == streamingStarStep(c.values, r.res, off, <<>>)
        events == before \o c.done \o YieldAll(s.yielded)
    IN IF s.exit = "return" THEN Ran(events, s.res, r.p)
       ELSE streamingStarRun(r.p, in, s.offset, events)

streamingStarRun(kid, in, off, before) ==
    streamingStarPass(in, off, before, Run(kid, in, off))

streamingStarRan(p, r) == Ran(r.events, r.res, [p EXCEPT !.c[1] = r.p])

\* streamingOptional, over what the inner generator did
streamingOptionalRan(p, off, r) ==
    LET c == collect(r.events)
        b == streamingOptionalBody(c.values, r.res, off)
    IN Ran(c.done \o YieldAll(b.values), b.res, [p EXCEPT !.c[1] = r.p])

\* streamingComplete, after yield* parser(input, offset) did r
streamingCompleteRan(p, in, r) ==
    Ran(r.events, IF ~r.res.success THEN r.res ELSE endBody(in, r.res.offset),
        [p EXCEPT !.c[1] = r.p])

Run(p, in, off) ==
    CASE p.k = "streaming" -> streamingRan(p, off, Apply(p.c[1], in, off))
      [] p.k = "streamingThen" -> streamingThenRan(p, in, off, Run(p.c[1], in, off))
      [] p.k = "streamingFilterUndefined" ->
            streamingFilterUndefinedRan(p, Run(p.c[1], in, off))
      [] p.k = "streamingStar" -> streamingStarRan(p, streamingStarRun(p.c[1], in, off, <<>>))
      [] p.k = "streamingOptional" -> streamingOptionalRan(p, off, Run(p.c[1], in, off))
      [] p.k = "streamingComplete" -> streamingCompleteRan(p, in, Run(p.c[1], in, off))

(***************************************************************************)
(* A caller creates the generator of a streaming parser and pulls from it: *)
(* each gen.next() runs the generator to its next yield, or to its return. *)
(***************************************************************************)
Lifted ==
    {streaming(p) : p \in {tokA, tokB, cut(tokB), peek(tokA), consume(tokA),
                           or(<<tokAB, tokB>>, NoExpected)}}

Streamed(S) ==
    UNION {{streamingStar(x), streamingOptional(x), streamingComplete(x),
            streamingFilterUndefined(x)} : x \in S}
    \cup {streamingThen(x, y) : x \in S, y \in S}

Nested(S) ==
    UNION {{streamingStar(streamingThen(x, y)), streamingOptional(streamingThen(x, y)),
            streamingThen(streamingStar(x), y), streamingThen(x, streamingStar(y)),
            streamingThen(streamingOptional(x), y),
            streamingThen(x, streamingThen(y, streaming(tokA))),
            streamingThen(streamingThen(x, y), streaming(tokB)),
            streamingComplete(streamingThen(x, y))} : x \in S, y \in S}
    \cup UNION {{streamingStar(streamingOptional(x)), streamingStar(streamingStar(x)),
                 streamingComplete(streamingStar(x)),
                 streamingStar(streamingFilterUndefined(x))} : x \in S}

StreamGrammars == Lifted \cup Streamed(Lifted) \cup Nested(Lifted)

InitStream ==
    /\ made \in StreamGrammars
    /\ parser = made
    /\ input \in Inputs
    /\ offset \in 0..Len(input)
    /\ result = NoResult
    /\ calls = <<>>
    /\ invoked = FALSE
    /\ pc = "start"
    /\ nextOffset = 0
    /\ ts = <<>>
    /\ iters = 0

\* the generator running ahead, to just before the yield after the next
NextStopAhead(events) ==
    LET stop == IF \E i \in 1..Len(events) : events[i].e = "yield"
                THEN CHOOSE i \in 1..Len(events) :
                        events[i].e = "yield" /\ \A j \in 1..(i - 1) : events[j].e # "yield"
                ELSE 0
    IN IF stop = 0 \/ stop = Len(events) THEN stop
       ELSE IF events[stop + 1].e = "yield" THEN stop
       ELSE CHOOSE i \in stop..Len(events) :
                /\ \A j \in (stop + 1)..i : events[j].e = "call"
                /\ i = Len(events) \/ events[i + 1].e = "yield"

\* where the generator stops next, given what it has still to do: at its
\* first yield (0: it has none left and runs to its return)
NextStop(events) ==
    IF \E i \in 1..Len(events) : events[i].e = "yield"
    THEN CHOOSE i \in 1..Len(events) :
            events[i].e = "yield" /\ \A j \in 1..(i - 1) : events[j].e # "yield"
    ELSE 0

RECURSIVE CallsOf(_)
CallsOf(events) ==
    IF events = <<>> THEN <<>>
    ELSE (IF Head(events).e = "call" THEN <<Call(1, Head(events).offset, Head(events).res)>>
          ELSE <<>>)
         \o CallsOf(Tail(events))

\* gen.next() on a generator that, run to its end, does r; the events
\* already behind it are the invocations in `calls` and the yields in `ts`
Resume(r) ==
    LET rest == SubSeq(r.events, Len(calls) + Len(ts) + 1, Len(r.events))
        stop == NextStop(rest)
        ran == IF stop = 0 THEN rest ELSE SubSeq(rest, 1, stop)
    IN /\ calls' = calls \o CallsOf(ran)
       /\ ts' = ts \o ValuesOf(ran)
       /\ iters' = iters + 1
       /\ pc' = IF stop = 0 THEN "done" ELSE "yielded"
       /\ result' = IF stop = 0 THEN r.res ELSE result
       /\ parser' = IF stop = 0 THEN r.p ELSE parser
       /\ invoked' = (stop = 0)
       /\ UNCHANGED <<made, input, offset, nextOffset>>

Pull ==
    /\ pc \in {"start", "yielded"}
    /\ Resume(Run(made, input, offset))

NextStream == Pull

StreamSpec == InitStream /\ [][NextStream]_vars

(***************************************************************************)
(* What the latest invocation shows.                                       *)
(***************************************************************************)
IsFailure(res) == ~res.success
IsFatal(res) == ~res.success /\ res.fatal
IsNonFatal(res) == ~res.success /\ ~res.fatal

\* an or(parsers) built without `expected` was invoked and every branch
\* failed non-fatally
AllBranchesFailed ==
    /\ invoked
    /\ made.k = "or"
    /\ ~made.e.set
    /\ Len(made.c) > 0
    /\ Len(calls) = Len(made.c)
    /\ \A i \in 1..Len(calls) : IsNonFatal(calls[i].res)

RECURSIVE MaxOffset(_)
MaxOffset(log) ==
    IF Len(log) = 1 THEN log[1].res.offset
    ELSE Max(log[1].res.offset, MaxOffset(Tail(log)))

\* the expected lists of the failures at offset `at`, concatenated in order
RECURSIVE ExpectedAt(_, _)
ExpectedAt(log, at) ==
    IF log = <<>> THEN <<>>
    ELSE (IF log[1].res.offset = at THEN log[1].res.expected ELSE <<>>)
         \o ExpectedAt(Tail(log), at)

(***************************************************************************)
(* C1: an invocation of a parser value returns what a freshly constructed  *)
(* copy of the parser returns on the same input and offset, whatever       *)
(* invocations came before.                                                *)
(***************************************************************************)
C1_SameAsFreshCopy ==
    invoked => result = Apply(made, input, offset).res

(***************************************************************************)
(* C2: when every branch of or(parsers), built without `expected`, fails   *)
(* non-fatally, the failure returned is non-fatal, at the greatest of the  *)
(* branches' failure offsets, and expects the concatenation, in branch     *)
(* order, of the expected lists of the branches that failed there.         *)
(***************************************************************************)
C2_FurthestFailure ==
    AllBranchesFailed =>
        /\ IsNonFatal(result)
        /\ result.offset = MaxOffset(calls)
        /\ result.expected = ExpectedAt(calls, MaxOffset(calls))

(***************************************************************************)
(* C3: a fatal failure of a branch of or(parsers) ends the loop: it is the *)
(* last branch invoked and or returns exactly that failure, with or        *)
(* without an `expected` given to or.                                      *)
(***************************************************************************)
C3_FatalBranchReturned ==
    (invoked /\ made.k = "or") =>
        \A i \in 1..Len(calls) :
            IsFatal(calls[i].res) => (i = Len(calls) /\ calls[i].i = i /\ result = calls[i].res)

\* or(three parsers, expected): the first branch failed non-fatally and
\* further on, the second failed fatally, the third was never invoked
C3_Witness ==
    /\ invoked
    /\ made.k = "or"
    /\ made.e.set
    /\ Len(made.c) = 3
    /\ Len(calls) = 2
    /\ IsNonFatal(calls[1].res)
    /\ IsFatal(calls[2].res)
    /\ calls[1].res.offset > calls[2].res.offset
    /\ result = calls[2].res

(***************************************************************************)
(* C4 as stated: or([p1, p2]) succeeds at an offset iff p1 succeeds there  *)
(* or p2 succeeds there.                                                   *)
(***************************************************************************)
IsOrOfTwo == invoked /\ made.k = "or" /\ Len(made.c) = 2

\* p2 invoked on its own at the offset (whether a parser succeeds does not
\* depend on any captured variable)
P2Alone == Apply(parser.c[2], input, offset).res

C4_SucceedsIffEither ==
    IsOrOfTwo => (result.success <=> (calls[1].res.success \/ P2Alone.success))

(***************************************************************************)
(* C4 amended: or([p1, p2]) succeeds at an offset iff p1 succeeds there,   *)
(* or p1 fails non-fatally there and p2 succeeds there.                    *)
(***************************************************************************)
C4_SucceedsIffEitherUnlessFatal ==
    IsOrOfTwo =>
        (result.success <=>
            (calls[1].res.success \/ (IsNonFatal(calls[1].res) /\ P2Alone.success)))

\* p1 failed fatally where p2 alone succeeds
C4_Witness ==
    /\ IsOrOfTwo
    /\ IsFatal(calls[1].res)
    /\ P2Alone.success
    /\ ~result.success

(***************************************************************************)
(* C5: when p1 and p2 both fail non-fatally at the same offset and or was  *)
(* built without `expected`, or([p1, p2]) expects p1's expected list       *)
(* followed by p2's.                                                       *)
(***************************************************************************)
C5_ExpectedConcatenated ==
    (AllBranchesFailed /\ Len(calls) = 2 /\ calls[1].res.offset = calls[2].res.offset) =>
        result.expected = calls[1].res.expected \o calls[2].res.expected

(***************************************************************************)
(* star, from the invocations of the inner parser it made.                 *)
(***************************************************************************)
IsStar == invoked /\ made.k = "star"

NotAdvanced(call) == call.res.success /\ call.res.offset = call.offset

RECURSIVE SuccessValues(_)
SuccessValues(log) ==
    IF log = <<>> THEN <<>>
    ELSE (IF log[1].res.success THEN <<log[1].res.value>> ELSE <<>>)
         \o SuccessValues(Tail(log))

\* where the last successful iteration that advanced ended; `from` if none did
RECURSIVE LastAdvance(_, _)
LastAdvance(log, from) ==
    IF log = <<>> THEN from
    ELSE LET call == log[Len(log)]
         IN IF call.res.success /\ call.res.offset > call.offset THEN call.res.offset
            ELSE LastAdvance(SubSeq(log, 1, Len(log) - 1), from)

(***************************************************************************)
(* C7: an iteration of star(p) that succeeds without advancing is the last *)
(* one: its value is appended once and star succeeds at the unchanged      *)
(* offset; if that is the first iteration, star succeeds at the offset it  *)
(* was started at with exactly one value.                                  *)
(***************************************************************************)
C7_StopsWhenNotAdvancing ==
    IsStar =>
        \A i \in 1..Len(calls) :
            NotAdvanced(calls[i]) =>
                /\ i = Len(calls)
                /\ result.success
                /\ result.offset = calls[i].offset
                /\ result.value.t = "array"
                /\ Len(result.value.items) = i
                /\ result.value.items[i] = calls[i].res.value
                /\ (i = 1 => result.offset = offset /\ result.value = List(<<calls[1].res.value>>))

\* after an advancing iteration, one that matched without advancing
C7_Witness ==
    /\ IsStar
    /\ Len(calls) >= 2
    /\ NotAdvanced(calls[Len(calls)])
    /\ result = okWithValue(calls[Len(calls)].offset, List(SuccessValues(calls)))
    /\ Len(result.value.items) = Len(calls)

(***************************************************************************)
(* C8: star(p) succeeds unless an iteration fails fatally: it returns the  *)
(* offset the last advancing iteration reached and the values of all       *)
(* successful iterations in order; a fatal failure of an iteration is      *)
(* returned as it is, without the values.                                  *)
(***************************************************************************)
C8_StarResult ==
    IsStar =>
        IF \E i \in 1..Len(calls) : IsFatal(calls[i].res)
        THEN result = calls[Len(calls)].res /\ IsFatal(result)
        ELSE result = okWithValue(LastAdvance(calls, offset), List(SuccessValues(calls)))

\* after a successful iteration, one that consumed input and then failed
C8_Witness ==
    /\ IsStar
    /\ Len(calls) >= 2
    /\ IsNonFatal(calls[Len(calls)].res)
    /\ calls[Len(calls)].res.offset > calls[Len(calls)].offset
    /\ result.success
    /\ result.offset = calls[Len(calls)].offset
    /\ Len(result.value.items) = Len(calls) - 1

(***************************************************************************)
(* C9 as stated: a parser built without cut (and so without delimited's    *)
(* cutAfterOpen) never returns a fatal failure.                            *)
(***************************************************************************)
RECURSIVE HasCut(_)
HasCut(p) == p.k = "cut" \/ \E i \in 1..Len(p.c) : HasCut(p.c[i])

RECURSIVE HasFatalFilter(_)
HasFatalFilter(p) == (p.k = "filter" /\ p.f) \/ \E i \in 1..Len(p.c) : HasFatalFilter(p.c[i])

C9_FatalOnlyFromCut ==
    (invoked /\ ~HasCut(made)) => ~IsFatal(result)

(***************************************************************************)
(* C9 amended: a parser built without cut (and so without delimited's      *)
(* cutAfterOpen) and without a filter given fatal = true never returns a   *)
(* fatal failure.                                                          *)
(***************************************************************************)
C9_FatalOnlyFromCutOrFilter ==
    (invoked /\ ~HasCut(made) /\ ~HasFatalFilter(made)) => ~IsFatal(result)

\* a filter built without `fatal` rejected the value its parser matched
C9_Witness ==
    /\ invoked
    /\ made.k = "filter"
    /\ ~HasCut(made)
    /\ ~made.f
    /\ calls[1].res.success
    /\ result = error(offset, made.e.v, FALSE)

(***************************************************************************)
(* C10 as stated: a fatal failure of the parser a combinator other than    *)
(* cut wraps is the outcome of the combinator, unchanged.                  *)
(***************************************************************************)
IsExcept(p) == p.k = "then" /\ p.fn = "second" /\ p.c[1].k = "not"

Propagating ==
    {"map", "filter", "then", "or", "optional", "star", "starConsumed", "plus",
     "recognize", "peek", "dispatch"}

C10_FatalPropagated ==
    /\ (invoked /\ made.k \in Propagating \cup {"not"}) =>
            \A i \in 1..Len(calls) : IsFatal(calls[i].res) => result = calls[i].res
    /\ (invoked /\ IsExcept(made)) =>
            LET inner == Apply(parser.c[1].c[1], input, offset).res
            IN IsFatal(inner) => result = inner

(***************************************************************************)
(* C10 amended: a fatal failure of the parser it wraps is the outcome,     *)
(* unchanged, of map, consume, filter, then (either stage), or, optional,  *)
(* star, starConsumed, plus, preceded, followed, recognize, peek, dispatch *)
(* and complete, and of except when it is `match` that fails; not (and so  *)
(* except for its `except` parser) turns any failure, fatal too, into      *)
(* success at the starting offset.                                         *)
(***************************************************************************)
C10_FatalPropagatedButNot ==
    /\ (invoked /\ made.k \in Propagating) =>
            \A i \in 1..Len(calls) : IsFatal(calls[i].res) => result = calls[i].res
    /\ (invoked /\ made.k = "not") =>
            (IsFailure(calls[1].res) => result = ok(offset))

\* optional, which turns a non-fatal failure into success, returned a
\* fatal one
C10_Witness ==
    /\ invoked
    /\ made.k = "optional"
    /\ IsFatal(calls[1].res)
    /\ result = calls[1].res

(***************************************************************************)
(* C6: star(p), starConsumed(p) and streamingStar(p) return on every       *)
(* input, also when p matches without consuming, after at most             *)
(* length(input) - offset + 1 invocations of p.  Every pass of the loop is *)
(* one more invocation of p; the invocations never exceed that number, and *)
(* a loop that has not returned has made fewer, so that it returns within  *)
(* that many passes.                                                       *)
(***************************************************************************)
C6_LoopsTerminate ==
    /\ iters <= Len(input) - offset + 1
    /\ Len(calls) = iters
    /\ pc = "done" \/ (pc = "loop" /\ iters < Len(input) - offset + 1)

\* the most invocations an input allows, the last one a match that did not
\* advance
C6_Witness ==
    /\ pc = "done"
    /\ iters >= 3
    /\ iters = Len(input) - offset + 1
    /\ NotAdvanced(calls[Len(calls)])
    /\ result.success

(***************************************************************************)
(* delimited(open, inner, close, cutAfterOpen), as the closures it is      *)
(* built of.                                                               *)
(***************************************************************************)
IsFollowed(p) == p.k = "then" /\ p.fn = "first"

IsDelimited(p) ==
    /\ p.k = "then"
    /\ p.fn = "second"
    /\ IsFollowed(p.c[2]) \/ (p.c[2].k = "cut" /\ IsFollowed(p.c[2].c[1]))

CutAfterOpen(p) == p.c[2].k = "cut"

InnerOf(p) == IF CutAfterOpen(p) THEN p.c[2].c[1].c[1] ELSE p.c[2].c[1]

CloseOf(p) == IF CutAfterOpen(p) THEN p.c[2].c[1].c[2] ELSE p.c[2].c[2]

\* `inner` invoked where `open` ended, `close` where `inner` ended
InnerResult(p, in, open) == Apply(InnerOf(p), in, open.offset).res

CloseResult(p, in, open) == Apply(CloseOf(p), in, InnerResult(p, in, open).offset).res

(***************************************************************************)
(* C11: delimited(open, inner, close, cutAfterOpen) returns a failure of   *)
(* `open` as `open` produced it; a failure of `inner` or `close` after     *)
(* `open` succeeded is returned at the failing stage's offset with its     *)
(* expected list, fatal when cutAfterOpen is true and as the stage         *)
(* produced it otherwise; so optional or or around a delimited built with  *)
(* cutAfterOpen = true returns that fatal failure without trying anything  *)
(* else once `open` has matched.                                           *)
(***************************************************************************)
C11_DelimitedCut ==
    /\ (invoked /\ IsDelimited(made)) =>
            LET open == calls[1].res
                inner == InnerResult(made, input, open)
                close == CloseResult(made, input, open)
                failing == IF ~inner.success THEN inner ELSE close
            IN IF ~open.success THEN result = open
               ELSE IF failing.success THEN result = okWithValue(close.offset, inner.value)
               ELSE result = error(failing.offset, failing.expected,
                                   CutAfterOpen(made) \/ failing.fatal)
    /\ (invoked /\ made.k \in {"optional", "or"} /\ Len(made.c) > 0
           /\ IsDelimited(made.c[1]) /\ CutAfterOpen(made.c[1])) =>
            LET open == Apply(made.c[1].c[1], input, offset).res
            IN (open.success /\ ~calls[1].res.success) =>
                    /\ Len(calls) = 1
                    /\ IsFatal(result)
                    /\ result = calls[1].res

\* with cutAfterOpen, `open` and `inner` matched and `close` failed, on its
\* own not fatally
C11_Witness ==
    /\ invoked
    /\ IsDelimited(made)
    /\ CutAfterOpen(made)
    /\ calls[1].res.success
    /\ InnerResult(made, input, calls[1].res).success
    /\ IsNonFatal(CloseResult(made, input, calls[1].res))
    /\ IsFatal(result)
    /\ result.offset = InnerResult(made, input, calls[1].res).offset
    /\ result.offset > offset

C13_NeverBackward ==
    (invoked /\ result.success) =>
        /\ result.offset >= offset
        /\ \A i \in 1..Len(calls) :
                calls[i].res.success => calls[i].res.offset >= calls[i].offset
        /\ made.k \in {"peek", "not"} => result.offset = offset

\* peek succeeded over a parser whose match consumed input
C13_Witness ==
    /\ invoked
    /\ made.k = "peek"
    /\ calls[1].res.success
    /\ calls[1].res.offset > offset
    /\ result = okWithValue(offset, calls[1].res.value)

(***************************************************************************)
(* C14: the offset of the outcome a parser returns, success or failure,    *)
(* lies within [0, length(input)] for every invocation at an offset in     *)
(* that range, in the string variant and in the byte-oriented variant      *)
(* (also at the end of the input and on a multi-byte sequence cut short).  *)
(***************************************************************************)
Returned == invoked /\ pc \in {"idle", "returned"}

C14_OffsetInRange ==
    Returned => (0 <= result.offset /\ result.offset <= Len(input))

(***************************************************************************)
(* C15 as stated: complete(p) succeeds iff p succeeds and p's resulting    *)
(* offset is the length of the input; in every other case it fails with    *)
(* expected ["end of input"] at p's resulting offset.                      *)
(***************************************************************************)
IsComplete(p) == p.k = "then" /\ p.fn = "first" /\ p.c[2].k = "end"

EndsAtEnd(res) == res.success /\ res.offset = Len(input)

C15_CompleteIffAtEnd ==
    (invoked /\ IsComplete(made)) =>
        LET inner == calls[1].res
        IN /\ result.success <=> EndsAtEnd(inner)
           /\ ~EndsAtEnd(inner) =>
                    /\ result.offset = inner.offset
                    /\ result.expected = <<"end of input">>

(***************************************************************************)
(* C15 amended: complete(p) succeeds, with p's value and offset, iff p     *)
(* succeeds and p's resulting offset is the length of the input; if p      *)
(* fails, p's failure is returned unchanged; if p succeeds before the end  *)
(* of the input, complete(p) fails, not fatally, with expected             *)
(* ["end of input"] at p's resulting offset.                               *)
(***************************************************************************)
C15_CompleteOrInnerFailure ==
    (invoked /\ IsComplete(made)) =>
        LET inner == calls[1].res
        IN /\ result.success <=> EndsAtEnd(inner)
           /\ EndsAtEnd(inner) => result = okWithValue(inner.offset, inner.value)
           /\ ~inner.success => result = inner
           /\ (inner.success /\ inner.offset # Len(input)) =>
                    result = error(inner.offset, <<"end of input">>, FALSE)

\* p failed after consuming input, expecting something else than the end
C15_Witness ==
    /\ invoked
    /\ IsComplete(made)
    /\ IsFailure(calls[1].res)
    /\ calls[1].res.offset > offset
    /\ calls[1].res.expected # <<"end of input">>
    /\ result = calls[1].res

(***************************************************************************)
(* C16: plus(p) returns a failure of the first application of p unchanged; *)
(* otherwise its outcome is that of star(p) started where the first match  *)
(* ended, with the first value prepended: success with at least one value, *)
(* or the fatal failure of a later iteration.                              *)
(***************************************************************************)
\* no captured variable has changed: the parser is as it was constructed
Unchanged == parser = made

\* star(p) on its own, started where the first match ended
StarAfter(firstRes) == Apply(star(made.c[1]), input, firstRes.offset).res

C16_PlusIsThenStar ==
    (invoked /\ made.k = "plus") =>
        LET firstRes == calls[1].res
            rest == Tail(calls)
        IN /\ calls[1].offset = offset
           /\ IF ~firstRes.success THEN result = firstRes /\ rest = <<>>
              ELSE /\ rest # <<>>
                   /\ rest[1].offset = firstRes.offset
                   /\ IF \E i \in 1..Len(rest) : IsFatal(rest[i].res)
                      THEN result = rest[Len(rest)].res /\ IsFatal(result)
                      ELSE /\ result = okWithValue(LastAdvance(rest, firstRes.offset),
                                                   List(<<firstRes.value>> \o SuccessValues(rest)))
                           /\ Len(result.value.items) >= 1
                   /\ Unchanged =>
                        result = IF StarAfter(firstRes).success
                                 THEN okWithValue(StarAfter(firstRes).offset,
                                                  List(<<firstRes.value>>
                                                       \o StarAfter(firstRes).value.items))
                                 ELSE StarAfter(firstRes)

\* the first application matched, a later one matched too, the last failed
\* after consuming input
C16_Witness ==
    /\ invoked
    /\ made.k = "plus"
    /\ Len(calls) >= 3
    /\ calls[2].res.success
    /\ IsNonFatal(calls[Len(calls)].res)
    /\ calls[Len(calls)].res.offset > calls[Len(calls)].offset
    /\ result.success
    /\ Len(result.value.items) = Len(calls) - 1
    /\ result.offset = calls[Len(calls)].offset

(***************************************************************************)
(* C17: starConsumed(p) and star(p) agree on every input and offset: both  *)
(* succeed or both fail, at the same offset, with the same expected list   *)
(* and fatal flag; only the value of a success differs, undefined for      *)
(* starConsumed and the list of values for star.                           *)
(***************************************************************************)
AsStar(p) == [p EXCEPT !.k = "star"]

AsStarConsumed(p) == [p EXCEPT !.k = "starConsumed"]

C17_StarConsumedLikeStar ==
    made.k \in {"star", "starConsumed"} =>
        \A off \in 0..Len(input) :
            LET s == Apply(AsStar(parser), input, off).res
                c == Apply(AsStarConsumed(parser), input, off).res
            IN /\ c.success = s.success
               /\ c.offset = s.offset
               /\ c.expected = s.expected
               /\ c.fatal = s.fatal
               /\ c.success => (c.value = Undefined /\ s.value.t = "array")

\* starConsumed went over two matches and stopped at a failure that had
\* consumed input, where star returns the two values
C17_Witness ==
    /\ invoked
    /\ made.k = "starConsumed"
    /\ Len(calls) = 3
    /\ IsNonFatal(calls[3].res)
    /\ calls[3].res.offset > calls[3].offset
    /\ result = ok(calls[3].offset)
    /\ Len(Apply(AsStar(made), input, offset).res.value.items) = 2

(***************************************************************************)
(* A string and its UTF-8 encoding: the code-point boundaries of the one   *)
(* and the byte offsets of the other.                                      *)
(***************************************************************************)
IsEncoding(b) == \E s \in Utf8Strings : EncodingTable[s] = b

Decoded(b) == CHOOSE s \in Utf8Strings : EncodingTable[s] = b

\* the offsets of s that do not lie inside a surrogate pair
Boundaries(s) == {u \in 0..Len(s) : WellFormed(SubSeq(s, 1, u))}

ByteOffset(s, u) == Len(EncodeUtf8(SubSeq(s, 1, u)))

AtBoundary(s, byteOffset) == \E u \in Boundaries(s) : ByteOffset(s, u) = byteOffset

UnitOffset(s, byteOffset) == CHOOSE u \in Boundaries(s) : ByteOffset(s, u) = byteOffset

\* the parser of the string variant built from the same arguments
RECURSIVE Counterpart(_)
Counterpart(p) ==
    [p EXCEPT !.k = CASE p.k = "tokenUtf8" -> "token"
                      [] p.k = "codepointUtf8" -> "codepoint"
                      [] p.k = "codepointsUtf8" -> "codepoints"
                      [] p.k = "skipCharsUtf8" -> "skipChars"
                      [] p.k = "recognizeUtf8" -> "recognize"
                      [] p.k = "dispatchUtf8" -> "dispatch",
              !.c = [i \in DOMAIN p.c |-> Counterpart(p.c[i])]]

\* the latest invocation was on the whole encoding of a string, at a
\* code-point boundary
OnEncodedString == invoked /\ IsEncoding(input) /\ AtBoundary(Decoded(input), offset)

StringResult ==
    Apply(Counterpart(made), Decoded(input), UnitOffset(Decoded(input), offset)).res

(***************************************************************************)
(* C18: on the UTF-8 encoding of a string, at the byte offset of a         *)
(* code-point boundary (the end of the input included), a byte-oriented    *)
(* primitive returns what its string counterpart returns on the string at  *)
(* that boundary: the same success or failure, expected list and fatal     *)
(* flag, at the byte offset of the boundary the string variant reached.    *)
(***************************************************************************)
C18_SameAsStringVariant ==
    OnEncodedString =>
        /\ pc = "returned"
        /\ result.success = StringResult.success
        /\ result.expected = StringResult.expected
        /\ result.fatal = StringResult.fatal
        /\ result.offset = ByteOffset(Decoded(input), StringResult.offset)

(***************************************************************************)
(* C19: at the end of the input there is no code point for the             *)
(* byte-oriented primitives: codepointUtf8(isMatch, expected) invoked at   *)
(* offset = length(input) fails, not fatally, with `expected`, whatever    *)
(* isMatch accepts, and skipCharsUtf8(N), N >= 1, fails, not fatally, with *)
(* expected ["any character"] when fewer than N code points remain.        *)
(***************************************************************************)
\* the code points of the encoded string from the boundary at byteOffset on
Remaining(s, byteOffset) ==
    Len(CodePoints(SubSeq(s, UnitOffset(s, byteOffset) + 1, Len(s))))

C19_EndIsNoCodePoint ==
    /\ (invoked /\ made.k = "codepointUtf8" /\ offset = Len(input)) =>
            (pc = "returned" /\ result = error(offset, made.e.v, FALSE))
    /\ (OnEncodedString /\ made.k = "skipCharsUtf8" /\ made.n >= 1
           /\ Remaining(Decoded(input), offset) < made.n) =>
            (pc = "returned" /\ IsNonFatal(result) /\ result.expected = <<"any character">>)

(***************************************************************************)
(* C20: codepoints(isMatch) and codepointsUtf8(isMatch) return on every    *)
(* finite input for every isMatch, also one that accepts every code point: *)
(* the loop never goes beyond the end of the input, it makes at most       *)
(* length(input) - offset + 1 passes, a loop still running has made fewer, *)
(* and the resulting offset, where the loop stopped, is no greater than    *)
(* length(input).                                                          *)
(***************************************************************************)
C20_RunsTerminate ==
    /\ nextOffset <= Len(input)
    /\ iters <= Len(input) - offset + 1
    /\ pc \in {"done", "thrown"} \/ (pc = "loop" /\ iters < Len(input) - offset + 1)
    /\ pc = "done" => (result.offset = nextOffset /\ result.offset <= Len(input))

(***************************************************************************)
(* The bytes of UTF-8: what a byte can be by its leading bits.             *)
(***************************************************************************)
IsContinuation(b) == b >= 128 /\ b <= 191

\* 10xxxxxx or 11111xxx: the byte leads no sequence
InvalidLead(b) == IsContinuation(b) \/ b >= 248

\* the bytes of the sequence a lead byte announces
SequenceLength(b) ==
    IF b < 128 THEN 1
    ELSE IF b >= 192 /\ b <= 223 THEN 2
    ELSE IF b >= 224 /\ b <= 239 THEN 3
    ELSE 4

\* a parser that decodes the code point at the offset it is invoked at
DecodesAtOffset == invoked /\ made.k \in {"codepointUtf8", "codepointsUtf8"}

(***************************************************************************)
(* C21: decoding at an offset whose byte matches none of the leading-byte  *)
(* patterns (10xxxxxx or 11111xxx) throws, however many bytes follow; it   *)
(* yields neither a code point nor a parse failure.                        *)
(***************************************************************************)
C21_InvalidLeadThrows ==
    (DecodesAtOffset /\ offset < Len(input) /\ InvalidLead(input[offset + 1])) =>
        pc = "thrown"

(***************************************************************************)
(* C22: a two-, three- or four-byte lead followed, within its sequence, by *)
(* a byte without the 10xxxxxx prefix is not decoded into a code point,    *)
(* and a sequence cut short by the end of the input is no code point: the  *)
(* parser fails, not fatally, at the offset.                               *)
(***************************************************************************)
C22_ContinuationValidated ==
    (invoked /\ made.k = "codepointUtf8" /\ made.fn = "any" /\ offset < Len(input)
       /\ input[offset + 1] >= 192 /\ input[offset + 1] <= 247) =>
        LET n == SequenceLength(input[offset + 1])
        IN IF offset + n > Len(input)
           THEN pc = "returned" /\ result = error(offset, made.e.v, FALSE)
           ELSE (\E i \in 1..(n - 1) : ~IsContinuation(input[offset + 1 + i])) =>
                    ~(pc = "returned" /\ result.success)

(***************************************************************************)
(* C23: tokenUtf8(token) succeeds at a byte offset iff the bytes from      *)
(* there on are, byte for byte, the UTF-8 encoding of the token; a success *)
(* is at the offset plus the length of that encoding, a failure is not     *)
(* fatal, at the offset, expecting [token].                                *)
(***************************************************************************)
BytesAt(in, off, n) == IF off + n > Len(in) THEN <<>> ELSE SubSeq(in, off + 1, off + n)

StartsWith(in, off, enc) == off + Len(enc) <= Len(in) /\ BytesAt(in, off, Len(enc)) = enc

C23_TokenByteForByte ==
    (invoked /\ made.k = "tokenUtf8" /\ pc = "returned") =>
        LET enc == EncodeUtf8(made.tok)
        IN /\ result.success <=> StartsWith(input, offset, enc)
           /\ result.success => result.offset = offset + Len(enc)
           /\ ~result.success => result = error(offset, <<Text(made.tok)>>, FALSE)

(***************************************************************************)
(* C24: recognize(p) returns a failure of p unchanged and, when p          *)
(* succeeds, p's resulting offset with input.slice(offset, resulting       *)
(* offset), the empty string for a match of nothing; on the encoding of a  *)
(* string, recognizeUtf8 over the byte parser returns the text of the      *)
(* bytes consumed, the same text as recognize over the string parser.      *)
(***************************************************************************)
\* s.slice(from, to) as a value
SliceValue(s, from, to) == Str(Text(Slice(s, from, to)))

C24_RecognizedText ==
    (OnEncodedString /\ made.k = "recognizeUtf8" /\ pc = "returned") =>
        LET s == Decoded(input)
            u == UnitOffset(s, offset)
            inner == Apply(Counterpart(made.c[1]), s, u).res
        IN /\ StringResult = IF inner.success THEN okWithValue(inner.offset,
                                                               SliceValue(s, u, inner.offset))
                             ELSE inner
           /\ result.success =>
                /\ AtBoundary(s, result.offset)
                /\ result.value = SliceValue(s, u, UnitOffset(s, result.offset))
                /\ StringResult.success => result.value = StringResult.value

(***************************************************************************)
(* Streaming parsers against the parsers they mirror.                      *)
(***************************************************************************)
\* the streaming parser g is built from lifted parsers with streamingThen,
\* streamingStar, streamingOptional and streamingComplete only
RECURSIVE Mirrored(_)
Mirrored(g) ==
    CASE g.k = "streaming" -> TRUE
      [] g.k \in {"streamingThen", "streamingStar", "streamingOptional", "streamingComplete"} ->
            \A i \in 1..Len(g.c) : Mirrored(g.c[i])
      [] OTHER -> FALSE

\* the same grammar built with then, star, optional and complete
RECURSIVE Sync(_)
Sync(g) ==
    CASE g.k = "streaming" -> g.c[1]
      [] g.k = "streamingThen" -> then(Sync(g.c[1]), Sync(g.c[2]), "pair")
      [] g.k = "streamingStar" -> star(Sync(g.c[1]))
      [] g.k = "streamingOptional" -> optional(Sync(g.c[1]))
      [] g.k = "streamingComplete" -> complete(Sync(g.c[1]))

\* the value v of Sync(g), flattened to the items it is made of, in order
RECURSIVE Flatten(_, _)
RECURSIVE FlattenAll(_, _)
FlattenAll(g, vs) ==
    IF vs = <<>> THEN <<>> ELSE Flatten(g, Head(vs)) \o FlattenAll(g, Tail(vs))

Flatten(g, v) ==
    CASE g.k = "streaming" -> <<v>>
      [] g.k = "streamingThen" -> Flatten(g.c[1], v.items[1]) \o Flatten(g.c[2], v.items[2])
      [] g.k = "streamingStar" -> FlattenAll(g.c[1], v.items)
      [] g.k = "streamingOptional" -> IF v = Null THEN <<>> ELSE Flatten(g.c[1], v)
      [] g.k = "streamingComplete" -> Flatten(g.c[1], v)

StreamDone == pc = "done"

\* C25: a grammar of lifted parsers under streamingThen, streamingStar,
\* streamingOptional and streamingComplete, run to its end, succeeds or
\* fails as the same grammar under then, star, optional and complete does,
\* at the same offset; when they succeed, the items it emitted, in order,
\* are the flattened value of the synchronous form.
C25_StreamingMirrorsSync ==
    (StreamDone /\ Mirrored(made)) =>
        LET sync == Apply(Sync(made), input, offset).res
        IN /\ result.success = sync.success
           /\ result.offset = sync.offset
           /\ result.success => ts = Flatten(made, sync.value)

C25_Witness ==
    /\ StreamDone
    /\ made.k = "streamingStar"
    /\ made.c[1].k = "streamingThen"
    /\ result.success
    /\ Len(ts) = 2
    /\ result.offset = 2
    /\ Len(input) = 3
    /\ ts = Flatten(made, Apply(Sync(made), input, offset).res.value)

\* one attempt of the inner streaming parser from offset off: what it
\* returned, what it yielded on the way, and how many parsers it invoked
Attempt(kid, in, off) ==
    LET r == Run(kid, in, off)
    IN [from |-> off, res |-> r.res, yielded |-> ValuesOf(r.events),
        ncalls |-> Len(SelectSeq(r.events, LAMBDA ev : ev.e = "call")), p |-> r.p]

\* the attempts streamingStar makes from offset off, the last one included
RECURSIVE Attempts(_, _, _)
Attempts(kid, in, off) ==
    LET a == Attempt(kid, in, off)
    IN IF ~a.res.success \/ a.res.offset = off THEN <<a>>
       ELSE <<a>> \o Attempts(a.p, in, a.res.offset)

AttemptsOf(g, in, off) ==
    IF g.k = "streamingStar" THEN Attempts(g.c[1], in, off)
    ELSE <<Attempt(g.c[1], in, off)>>

\* the items of the first k attempts that succeeded, in order
RECURSIVE ItemsThrough(_, _)
ItemsThrough(its, k) ==
    IF k = 0 THEN <<>>
    ELSE ItemsThrough(its, k - 1) \o (IF its[k].res.success THEN its[k].yielded ELSE <<>>)

\* the number of parser invocations of the first k attempts
RECURSIVE CallsThrough(_, _)
CallsThrough(its, k) ==
    IF k = 0 THEN 0 ELSE CallsThrough(its, k - 1) + its[k].ncalls

\* the attempt that produced the n-th emitted item
AttemptOfItem(its, n) ==
    CHOOSE k \in 1..Len(its) :
        /\ Len(ItemsThrough(its, k)) >= n
        /\ Len(ItemsThrough(its, k - 1)) < n

IsPrefixOf(xs, ys) == Len(xs) <= Len(ys) /\ xs = SubSeq(ys, 1, Len(xs))

\* C26: streamingStar and streamingOptional emit the items of successful
\* attempts only, and those of an attempt only once the whole attempt has
\* concluded; after a non-fatal failure of the inner parser they succeed at
\* the offset the failed attempt started at, after a fatal one they return
\* that failure; the items of the earlier iterations stay emitted.
C26_OnlySuccessfulAttempts ==
    (made.k \in {"streamingStar", "streamingOptional"}) =>
        LET its == AttemptsOf(made, input, offset)
            good == ItemsThrough(its, Len(its))
            last == its[Len(its)]
        IN /\ IsPrefixOf(ts, good)
           /\ ts # <<>> => Len(calls) >= CallsThrough(its, AttemptOfItem(its, Len(ts)))
           /\ StreamDone =>
                /\ ts = good
                /\ (~last.res.success /\ ~last.res.fatal) => result = ok(last.from)
                /\ (~last.res.success /\ last.res.fatal) => result = last.res

C26_Witness ==
    /\ StreamDone
    /\ made.k = "streamingStar"
    /\ ~result.success
    /\ result.fatal
    /\ ts # <<>>
    /\ LET its == AttemptsOf(made, input, offset)
       IN /\ Len(its) = 2
          /\ its[2].yielded # <<>>
          /\ ts = its[1].yielded

C26_WitnessOptional ==
    /\ StreamDone
    /\ made.k = "streamingOptional"
    /\ result = ok(offset)
    /\ ts = <<>>
    /\ AttemptsOf(made, input, offset)[1].yielded # <<>>

\* C27: streamingThen(p1, p2) emits the items of p1, in order, then those
\* of p2; p2 is started only once p1 has returned a success, at the offset
\* of that success, and after all of p1's items; a failure of p1 is
\* returned with p2 never started, a failure of p2 is returned after p1's
\* items and those p2 yielded before it failed, and nothing follows it.
C27_ThenInSequence ==
    (made.k = "streamingThen") =>
        LET a1 == Attempt(made.c[1], input, offset)
            c1 == Collect(made.c[1], input, offset)
            c2 == Collect(made.c[2], input, c1.res.offset)
            items == c1.values \o (IF c1.res.success THEN c2.values ELSE <<>>)
        IN /\ IsPrefixOf(ts, items)
           /\ Len(calls) > a1.ncalls =>
                /\ c1.res.success
                /\ calls[a1.ncalls + 1].offset = c1.res.offset
                /\ Len(ts) >= Len(c1.values)
           /\ StreamDone =>
                /\ ts = items
                /\ ~c1.res.success => (result = c1.res /\ Len(calls) = a1.ncalls)
                /\ c1.res.success => result = c2.res

C27_Witness ==
    /\ StreamDone
    /\ made.k = "streamingThen"
    /\ ~result.success
    /\ LET c1 == Collect(made.c[1], input, offset)
           c2 == Collect(made.c[2], input, c1.res.offset)
       IN /\ c1.res.success
          /\ c1.res.offset > offset
          /\ c1.values # <<>>
          /\ c2.values # <<>>
          /\ ts = c1.values \o c2.values
          /\ result = c2.res

C27_WitnessFirstFails ==
    /\ StreamDone
    /\ made.k = "streamingThen"
    /\ made.c[1].k = "streamingThen"
    /\ ~result.success
    /\ ts # <<>>
    /\ ~Collect(made.c[1], input, offset).res.success

\* C30: streamingStar hands every item of iteration k to its caller before
\* it invokes a parser for iteration k + 1; nothing is invoked before the
\* first pull, and a caller that holds the items of the first k iterations
\* and no more has caused the invocations of those iterations only, none of
\* them past the offset iteration k ended at.
C30_StarIsLazy ==
    (made.k = "streamingStar") =>
        LET its == Attempts(made.c[1], input, offset)
        IN /\ pc = "start" => calls = <<>>
           /\ \A k \in 1..Len(its) :
                /\ Len(calls) > CallsThrough(its, k) =>
                        Len(ts) >= Len(ItemsThrough(its, k))
                /\ (pc = "yielded" /\ Len(ts) = Len(ItemsThrough(its, k))) =>
                        /\ Len(calls) <= CallsThrough(its, k)
                        /\ \A i \in 1..Len(calls) : calls[i].offset <= its[k].res.offset

C30_Witness ==
    /\ made.k = "streamingStar"
    /\ pc = "yielded"
    /\ LET its == Attempts(made.c[1], input, offset)
       IN /\ Len(its) >= 2
          /\ its[1].res.success
          /\ ts = its[1].yielded
          /\ Len(ts) = 2
          /\ Len(calls) = its[1].ncalls
          /\ its[2].ncalls >= 1
          /\ its[2].res.success

(***************************************************************************)
(* dispatch.                                                               *)
(***************************************************************************)
\* the code point dispatch looks at (-1: there is none)
Lookahead == CodePointAt(input, offset + made.n)

\* the parser the mapping holds for the code point looked at (0: none)
Mapped == IF Lookahead = -1 THEN 0 ELSE MappingIndex(made, Lookahead)

\* dispatch invoked the child sel, and only it, at the offset it was
\* invoked at itself, and returned what the child returned; sel = 0: it
\* invoked no parser and failed with `expected`, non-fatally, at that offset
Dispatched(sel) ==
    IF sel = 0
    THEN calls = <<>> /\ result = error(offset, made.e.v, FALSE)
    ELSE calls = <<Call(sel, offset, result)>>

\* C28 as stated: dispatch runs, at the original offset, the parser mapped
\* to the code point at offset + extraOffset, else `otherwise` whenever one
\* is supplied; it fails itself only when neither is there.
C28_OtherwiseWheneverSupplied ==
    (Returned /\ made.k = "dispatch") =>
        Dispatched(IF Mapped # 0 THEN Mapped
                   ELSE IF made.f THEN Len(made.c) ELSE 0)

\* C28, amended: when there is no code point at offset + extraOffset,
\* dispatch invokes no parser and fails with `expected`, non-fatally, at
\* the original offset, whether or not `otherwise` is supplied; when there
\* is one, it runs at the original offset the parser mapped to it, else
\* `otherwise` if supplied, and fails itself if neither is there.
C28_NoCodePointFails ==
    (Returned /\ made.k = "dispatch") =>
        Dispatched(IF Lookahead = -1 THEN 0
                   ELSE IF Mapped # 0 THEN Mapped
                   ELSE IF made.f THEN Len(made.c) ELSE 0)

C28_Witness ==
    /\ Returned
    /\ made.k = "dispatch"
    /\ made.f
    /\ made.n = 1
    /\ offset + 1 = Len(input)
    /\ Lookahead = -1
    /\ Apply(made.c[Len(made.c)], input, offset).res.success
    /\ calls = <<>>
    /\ result = error(offset, made.e.v, FALSE)

C28_WitnessAhead ==
    /\ Returned
    /\ made.k = "dispatch"
    /\ made.n = 1
    /\ Mapped = 1
    /\ calls = <<Call(1, offset, result)>>
    /\ result.success
    /\ offset > 0

C28_WitnessOtherwise ==
    /\ Returned
    /\ made.k = "dispatch"
    /\ Lookahead # -1
    /\ Mapped = 0
    /\ made.f
    /\ calls = <<Call(2, offset, result)>>
    /\ result.success

(***************************************************************************)
(* codepoints against the combinations it stands for.                      *)
(***************************************************************************)
\* starConsumed(codepoint(isMatch, [])), or plusConsumed(codepoint(isMatch,
\* expected)) when `expected` is set
Combination(p) ==
    IF p.e.set THEN plusConsumed(codepoint(p.fn, p.e.v))
    ELSE starConsumed(codepoint(p.fn, <<>>))

\* C29: codepoints(isMatch) succeeds or fails, and at the same offset, as
\* starConsumed(codepoint(isMatch, [])) does; codepoints(isMatch, expected)
\* as plusConsumed(codepoint(isMatch, expected)) does, with the same
\* expected list and fatal flag; code points above 0xFFFF included.
C29_CodepointsLikeCombination ==
    (made.k = "codepoints" /\ pc = "done") =>
        LET r == Apply(Combination(made), input, offset).res
        IN /\ result.success = r.success
           /\ result.offset = r.offset
           /\ made.e.set => (result.expected = r.expected /\ result.fatal = r.fatal)

C29_Witness ==
    /\ made.k = "codepoints"
    /\ pc = "done"
    /\ made.e.set
    /\ made.fn = "astral"
    /\ offset < Len(input)
    /\ CodePointAt(input, offset) > 65535
    /\ result = ok(offset + 2)
    /\ Apply(Combination(made), input, offset).res.offset = offset + 2

C29_WitnessFails ==
    /\ made.k = "codepoints"
    /\ pc = "done"
    /\ made.e.set
    /\ offset < Len(input)
    /\ result = error(offset, made.e.v, FALSE)
    /\ Apply(Combination(made), input, offset).res = result

====
